---- MODULE Spec2Model ----
(***************************************************************************)
(* Model of the fix remediation core of test-genie-mcp: the fix store      *)
(* (storage/index.ts), suggestFixes / confirmFix / applyFix / rollbackFix  *)
(* (tools/fixing), and the two line diffs (generateDiff,                   *)
(* generateUnifiedDiff).                                                   *)
(*                                                                         *)
(* Text is modelled as TLA+ strings, character by character: "\n" is the   *)
(* line terminator that String.split('\n') / Array.join('\n') work on.     *)
(* File contents are UTF-8 text (spec section 6), so a read followed by a  *)
(* write of the same string stores the same bytes.                         *)
(***************************************************************************)
EXTENDS Integers, Sequences, FiniteSets, TLC

VARIABLES
    file,      \* content of the target source file (fix.file)
    backups,   \* .test-genie-backups: backup path (the Date.now() stamp) -> content
    now,       \* Date.now(), in milliseconds
    fixes,     \* FIXES_FILE: fix id -> StoredFix
    last,      \* result of the most recent tool call
    ghost,     \* history: per fix, the file before its last successful apply
    reqs,      \* apply requests in flight (event-loop model)
    stack,     \* the request whose handler is on the call stack
    call,      \* a pure-function evaluation (the diff engines, the synthesizer)
    calls      \* how many tool calls the session has made so far

vars == <<file, backups, now, fixes, last, ghost, reqs, stack, call, calls>>

-----------------------------------------------------------------------------
(* Bounds of the model *)

\* Date.now() values the model distinguishes: 0..MaxClock
MaxClock == 1
\* fixes the store can hold
MaxFixes == 2
\* issues given to one suggestFixes call
MaxIssues == 1
\* tool calls in one session
MaxCalls == 5
\* longest line sequence given to generateUnifiedDiff
MaxDiffLines == 4

\* the largest line number an issue reports in the patch locator's inputs
MaxLine == 5

-----------------------------------------------------------------------------
(* Strings *)

Char(s, i) == SubSeq(s, i, i)

Max(a, b) == IF a >= b THEN a ELSE b
Min(a, b) == IF a <= b THEN a ELSE b

\* a value computed once and then used under a name, as a const declaration is
Bind(v, Body(_)) == CHOOSE r \in {Body(x) : x \in {v}} : TRUE

\* the least element of a non-empty set of integers
Least(S) == CHOOSE i \in S : \A k \in S : i <= k

\* the places of the separators of s, with one before the start and one after
\* the end
Breaks(s) == {0, Len(s) + 1} \cup {i \in 1..Len(s) : Char(s, i) = "\n"}

\* String.prototype.split('\n'): always at least one line; line k lies
\* between the k-th and the next break
Split(s) ==
    LET b == Breaks(s)
        from(k) == CHOOSE i \in b : Cardinality({j \in b : j < i}) = k - 1
        to(k) == CHOOSE i \in b : Cardinality({j \in b : j < i}) = k
    IN [k \in 1..(Cardinality(b) - 1) |-> SubSeq(s, from(k) + 1, to(k) - 1)]

\* Array.prototype.join(sep)
RECURSIVE JoinWith(_, _)
JoinWith(ls, sep) ==
    IF Len(ls) = 0 THEN ""
    ELSE IF Len(ls) = 1 THEN ls[1]
    ELSE ls[1] \o sep \o JoinWith(Tail(ls), sep)

Join(ls) == JoinWith(ls, "\n")

\* String.prototype.trim() on one line (the only white space is " ")
RECURSIVE TrimLeft(_)
TrimLeft(s) == IF Len(s) > 0 /\ Char(s, 1) = " " THEN TrimLeft(Tail(s)) ELSE s

RECURSIVE TrimRight(_)
TrimRight(s) ==
    IF Len(s) > 0 /\ Char(s, Len(s)) = " " THEN TrimRight(SubSeq(s, 1, Len(s) - 1)) ELSE s

Trim(s) == TrimRight(TrimLeft(s))

\* (content.match(/c/g) || []).length
CountChar(s, c) == Cardinality({i \in 1..Len(s) : Char(s, i) = c})

\* String.prototype.startsWith
StartsWith(s, p) == Len(s) >= Len(p) /\ SubSeq(s, 1, Len(p)) = p

\* Array.prototype.slice(a, b) on 0-based indices
Slice(ls, a, b) == SubSeq(ls, a + 1, Min(b, Len(ls)))

\* regex character class \w
IsWord(c) == c \in {"a", "b", "c", "d", "e", "f", "g", "h", "i", "j", "k", "l", "m",
                    "n", "o", "p", "q", "r", "s", "t", "u", "v", "w", "x", "y", "z",
                    "A", "B", "C", "D", "E", "F", "G", "H", "I", "J", "K", "L", "M",
                    "N", "O", "P", "Q", "R", "S", "T", "U", "V", "W", "X", "Y", "Z",
                    "0", "1", "2", "3", "4", "5", "6", "7", "8", "9", "_"}

\* an array element that may be out of range: lines[i] on a 0-based index
At(ls, i) ==
    IF i >= 0 /\ i < Len(ls) THEN [def |-> TRUE, s |-> ls[i + 1]]
    ELSE [def |-> FALSE, s |-> ""]

\* `${x}` in a template literal
Show(x) == IF x.def THEN x.s ELSE "undefined"

\* JavaScript truthiness of a string | undefined
Truthy(x) == x.def /\ x.s # ""

-----------------------------------------------------------------------------
(* Regular expressions used by the fix templates *)

\* String.prototype.includes
Includes(s, sub) ==
    \E i \in 1..(Len(s) - Len(sub) + 1) : SubSeq(s, i, i + Len(sub) - 1) = sub

\* regex character class \s
IsSpace(c) == c \in {" ", "\n"}

RECURSIVE SkipSpace(_, _)
SkipSpace(s, i) == IF i <= Len(s) /\ IsSpace(Char(s, i)) THEN SkipSpace(s, i + 1) ELSE i

\* A pattern is a sequence of literals, each preceded by \s* when ws is TRUE.
\* MatchAt is the index after the match of pat at i, or 0 when there is none.
RECURSIVE MatchAt(_, _, _)
MatchAt(s, i, pat) ==
    IF Len(pat) = 0 THEN i
    ELSE LET j == IF pat[1].ws THEN SkipSpace(s, i) ELSE i
             l == pat[1].lit
         IN IF j + Len(l) - 1 <= Len(s) /\ SubSeq(s, j, j + Len(l) - 1) = l
            THEN MatchAt(s, j + Len(l), Tail(pat))
            ELSE 0

Lit(l) == [ws |-> FALSE, lit |-> l]
WsLit(l) == [ws |-> TRUE, lit |-> l]

\* where pat matches at or after i
MatchesFrom(s, i, pat) == {k \in i..Len(s) : MatchAt(s, k, pat) > 0}

\* s.replace(/pat/, repl): the first match only
ReplaceFirst(s, pat, repl) ==
    IF MatchesFrom(s, 1, pat) = {} THEN s
    ELSE LET k == Least(MatchesFrom(s, 1, pat))
         IN SubSeq(s, 1, k - 1) \o repl \o SubSeq(s, MatchAt(s, k, pat), Len(s))

\* s.replace(/pat/g, repl): every match, left to right, not overlapping
RECURSIVE ReplaceAllFrom(_, _, _, _)
ReplaceAllFrom(s, i, pat, repl) ==
    IF MatchesFrom(s, i, pat) = {} THEN SubSeq(s, i, Len(s))
    ELSE LET k == Least(MatchesFrom(s, i, pat))
         IN SubSeq(s, i, k - 1) \o repl \o ReplaceAllFrom(s, MatchAt(s, k, pat), pat, repl)

ReplaceAll(s, pat, repl) == ReplaceAllFrom(s, 1, pat, repl)

\* where bang stands directly after a word character, at or after i
BangsFrom(s, i, bang) ==
    {k \in Max(i, 2)..(Len(s) - Len(bang) + 1) :
        IsWord(Char(s, k - 1)) /\ SubSeq(s, k, k + Len(bang) - 1) = bang}

\* s.replace(/(\w+)BANG/g, '$1' + repl): the word is kept, bang (which holds no
\* word character) is replaced wherever a word character precedes it; without
\* the g flag (all = FALSE) only the first one is
RECURSIVE ReplaceAfterWordFrom(_, _, _, _, _)
ReplaceAfterWordFrom(s, i, bang, repl, all) ==
    IF BangsFrom(s, i, bang) = {} THEN SubSeq(s, i, Len(s))
    ELSE LET k == Least(BangsFrom(s, i, bang))
         IN SubSeq(s, i, k - 1) \o repl
            \o (IF all THEN ReplaceAfterWordFrom(s, k + Len(bang), bang, repl, all)
                       ELSE SubSeq(s, k + Len(bang), Len(s)))

DropBang(s, bang, repl, all) == ReplaceAfterWordFrom(s, 1, bang, ".", all)

ReplaceAfterWord(s, bang, repl, all) == ReplaceAfterWordFrom(s, 1, bang, repl, all)

\* originalCode.match(/(\w+)!/): group 1 of the first match, "" when none.
\* The first match starts at the first word character of the first word that
\* is directly followed by "!".
RECURSIVE WordStart(_, _)
WordStart(s, i) == IF i > 1 /\ IsWord(Char(s, i - 1)) THEN WordStart(s, i - 1) ELSE i

FirstBang(s) == IF BangsFrom(s, 1, "!") = {} THEN 0 ELSE Least(BangsFrom(s, 1, "!"))

ForceUnwrapVar(s) ==
    LET b == FirstBang(s) IN IF b = 0 THEN "" ELSE SubSeq(s, WordStart(s, b), b - 1)

-----------------------------------------------------------------------------
(* Fix Synthesizer: tools/fixing/suggestFixes.ts *)

NoFix == [none |-> TRUE]
FixCode(o, s, c) == [none |-> FALSE, original |-> o, suggested |-> s, confidence |-> c]

\* every template ends with: if (suggested === originalCode) return null
TemplateAlways(originalCode, suggested, confidence) == FixCode(originalCode, suggested, confidence)

Template(originalCode, suggested, confidence) ==
    IF suggested = originalCode THEN NoFix ELSE FixCode(originalCode, suggested, confidence)

DepsClose == <<Lit("}"), WsLit(","), WsLit("[")>>

generateMemoryLeakFix(issue, platform, originalCode) ==
    LET web ==
            IF platform \in {"react-native", "web"} /\ Includes(issue.title, "useEffect")
            THEN IF Includes(originalCode, "addEventListener")
                 THEN ReplaceFirst(
                        ReplaceFirst(originalCode,
                            <<Lit("useEffect"), WsLit("("), WsLit("("), WsLit(")"),
                              WsLit("=>"), WsLit("{")>>,
                            "useEffect(() => {\n    const abortController = new AbortController();"),
                        DepsClose,
                        "\n    return () => {\n      abortController.abort();\n      // Cleanup event listeners here\n    };\n  }, [")
                 ELSE IF Includes(originalCode, "setInterval")
                 THEN IF ~Includes(originalCode, "return")
                      THEN ReplaceFirst(originalCode, DepsClose,
                               "\n    return () => clearInterval(intervalId);\n  }, [")
                      ELSE originalCode
                 ELSE IF Includes(originalCode, "subscribe")
                 THEN ReplaceFirst(originalCode, DepsClose,
                          "\n    return () => subscription.unsubscribe();\n  }, [")
                 ELSE originalCode
            ELSE originalCode
        ios1 ==
            IF /\ platform = "ios"
               /\ Includes(issue.title, "NotificationCenter")
               /\ ~Includes(originalCode, "removeObserver")
            THEN originalCode \o "\n\n    deinit {\n        NotificationCenter.default.removeObserver(self)\n    }"
            ELSE web
        ios2 ==
            IF /\ platform = "ios"
               /\ Includes(issue.title, "Timer")
               /\ ~Includes(originalCode, "invalidate")
            THEN originalCode \o "\n\n    deinit {\n        timer?.invalidate()\n        timer = nil\n    }"
            ELSE ios1
        fl1 ==
            IF /\ platform = "flutter"
               /\ Includes(issue.title, "StreamSubscription")
               /\ ~Includes(originalCode, "cancel")
            THEN originalCode \o "\n\n  @override\n  void dispose() {\n    subscription?.cancel();\n    super.dispose();\n  }"
            ELSE ios2
        fl2 ==
            IF /\ platform = "flutter"
               /\ Includes(issue.title, "AnimationController")
               /\ ~Includes(originalCode, "dispose")
            THEN originalCode \o "\n\n  @override\n  void dispose() {\n    controller.dispose();\n    super.dispose();\n  }"
            ELSE fl1
    IN Template(originalCode, fl2, 85)

generateRetainCycleFix(issue, platform, originalCode) ==
    LET closure ==
            IF platform = "ios" /\ Includes(issue.title, "closure")
            THEN ReplaceFirst(originalCode, <<Lit("{"), WsLit("self.")>>,
                     "{ [weak self] in\n        guard let self = self else { return }\n        self.")
            ELSE originalCode
        \* /var\s+(\w*delegate\w*)\s*:\s*/i needs "delegate" in the code
        delegate == closure
    IN IF platform \in {"react-native", "web"} THEN NoFix
       ELSE Template(originalCode, delegate, 90)

generateResourceCleanupFix(issue, platform, originalCode) ==
    LET \* /(\w+Controller)\s+(\w+)/ needs "Controller" in the code
        flutter == originalCode
        android ==
            IF platform = "android" /\ Includes(issue.title, "BroadcastReceiver")
            THEN originalCode \o "\n\n    override fun onDestroy() {\n        super.onDestroy()\n        unregisterReceiver(receiver)\n    }"
            ELSE flutter
    IN Template(originalCode, android, 85)

MountPrefix ==
    "const isMountedRef = useRef(true);\n\nuseEffect(() => {\n  return () => { isMountedRef.current = false; };\n}, []);\n\n"

generateRaceConditionFix(issue, platform, originalCode) ==
    LET web == platform \in {"react-native", "web"}
        mount ==
            IF web /\ Includes(issue.title, "mount check")
            THEN ReplaceAll(MountPrefix \o originalCode, <<Lit("setState"), WsLit("(")>>,
                     "if (isMountedRef.current) setState(")
            ELSE originalCode
        \* the 'Multiple setState' pattern needs two setState({...}) calls and the
        \* flutter pattern an "await": without them the code is kept
        multi ==
            IF web /\ Includes(issue.title, "Multiple setState") THEN originalCode ELSE mount
        confidence ==
            IF web /\ Includes(issue.title, "Multiple setState") THEN 70 ELSE 75
    IN Template(originalCode, multi, confidence)

generateStateConsistencyFix(issue, platform, originalCode) ==
    \* /useState\s*\(\s*props\.(\w+)\s*\)/ needs "useState" in the code
    Template(originalCode, originalCode, 70)

generateNullCheckFix(issue, platform, originalCode) ==
    LET web ==
            IF platform \in {"react-native", "web"}
            THEN ReplaceAfterWord(originalCode, "!.", "?.", TRUE)
            ELSE originalCode
        varName == ForceUnwrapVar(originalCode)
        ios ==
            IF platform = "ios" /\ FirstBang(originalCode) > 0
            THEN "guard let " \o varName \o " = " \o varName \o " else { return }\n"
                 \o ReplaceAfterWord(originalCode, "!", "", FALSE)
            ELSE web
        android ==
            IF platform = "android" THEN ReplaceAfterWord(originalCode, "!!", "?", TRUE)
            ELSE ios
    IN Template(originalCode, android, 85)

generateFixCode(issue, platform, originalCode) ==
    CASE issue.type = "memory_leak" -> generateMemoryLeakFix(issue, platform, originalCode)
      [] issue.type = "retain_cycle" -> generateRetainCycleFix(issue, platform, originalCode)
      [] issue.type = "unclosed_resource" -> generateResourceCleanupFix(issue, platform, originalCode)
      [] issue.type = "race_condition" -> generateRaceConditionFix(issue, platform, originalCode)
      [] issue.type = "state_inconsistency" -> generateStateConsistencyFix(issue, platform, originalCode)
      [] issue.type = "null_reference" -> generateNullCheckFix(issue, platform, originalCode)
      [] OTHER -> NoFix

\* utils/codeParser.ts generateDiff: a line-by-line comparison at equal indices
RECURSIVE DiffLinesFrom(_, _, _, _)
DiffLinesFrom(originalLines, modifiedLines, i, maxLen) ==
    IF i >= maxLen THEN <<>>
    ELSE LET origLine == At(originalLines, i)
             modLine == At(modifiedLines, i)
             here ==
                 IF origLine = modLine THEN <<"  " \o origLine.s>>
                 ELSE IF Truthy(origLine) /\ ~Truthy(modLine) THEN <<"- " \o Show(origLine)>>
                 ELSE IF ~Truthy(origLine) /\ Truthy(modLine) THEN <<"+ " \o Show(modLine)>>
                 ELSE <<"- " \o Show(origLine), "+ " \o Show(modLine)>>
         IN here \o DiffLinesFrom(originalLines, modifiedLines, i + 1, maxLen)

generateDiff(original, modified) ==
    LET originalLines == Split(original)
        modifiedLines == Split(modified)
    IN Join(DiffLinesFrom(originalLines, modifiedLines, 0,
                          Max(Len(originalLines), Len(modifiedLines))))

\* the window of the file around the reported line, read when the fix is made
CodeWindow(fileContent, line) ==
    LET lines == Split(fileContent)
        startLine == Max(0, line - 3)
        endLine == Min(Len(lines), line + 5)
    IN Join(Slice(lines, startLine, endLine))

\* generateFixSuggestion, given whether the file could be read
generateFixSuggestion(issue, platform, readable, fileContent) ==
    Bind(IF readable THEN CodeWindow(fileContent, issue.line) ELSE issue.code,
         LAMBDA originalCode :
    Bind(generateFixCode(issue, platform, originalCode),
         LAMBDA fix :
             IF fix.none THEN NoFix
             ELSE [none |-> FALSE,
                   confidence |-> fix.confidence,
                   line |-> issue.line,
                   originalCode |-> fix.original,
                   suggestedCode |-> fix.suggested,
                   diff |-> generateDiff(fix.original, fix.suggested),
                   status |-> "pending"]))

-----------------------------------------------------------------------------
(* Fix store: storage/index.ts *)

FixIds == 1..MaxFixes

Undefined == [def |-> FALSE]
Some(v) == [def |-> TRUE, v |-> v]

\* uuidv4(): an id no stored fix has
NextId(store) == Least(FixIds \ DOMAIN store)

getFixById(store, id) == IF id \in DOMAIN store THEN Some(store[id]) ELSE Undefined

saveFix(store, id, fix) ==
    IF id \in DOMAIN store
    THEN [store EXCEPT ![id] = [fix |-> fix,
                                confirmation |-> store[id].confirmation,
                                application |-> store[id].application]]
    ELSE [k \in DOMAIN store \cup {id} |->
             IF k = id THEN [fix |-> fix, confirmation |-> Undefined, application |-> Undefined]
             ELSE store[k]]

ConfirmedStatus(action) == IF action = "approve" THEN "confirmed" ELSE "rejected"

updateFixConfirmation(store, fixId, confirmation) ==
    IF fixId \in DOMAIN store
    THEN [store EXCEPT ![fixId].confirmation = Some(confirmation),
                       ![fixId].fix.status = ConfirmedStatus(confirmation.action)]
    ELSE store

AppliedStatus(success) == IF success THEN "applied" ELSE "failed"

updateFixApplication(store, fixId, application) ==
    IF fixId \in DOMAIN store
    THEN [store EXCEPT ![fixId].application = Some(application),
                       ![fixId].fix.status = AppliedStatus(application.success)]
    ELSE store

getConfirmedFixes(store) == {id \in DOMAIN store : store[id].fix.status = "confirmed"}

-----------------------------------------------------------------------------
(* Patch Locator / Applier: tools/fixing/applyFix.ts *)

\* the guard of applyFix: TRUE when the call is refused as not confirmed
NotConfirmed(storedFix) ==
    storedFix.fix.status # "confirmed" /\ ~storedFix.confirmation.def

\* a mutation of CodeToApply: the suggestion, whatever the confirmation says
CodeSuggested(storedFix) == storedFix.fix.suggestedCode

\* which code to write: the confirmation's modifiedCode or the suggestion
CodeToApply(storedFix) ==
    IF /\ storedFix.confirmation.def
       /\ storedFix.confirmation.v.action = "modify"
       /\ Truthy(storedFix.confirmation.v.modifiedCode)
    THEN storedFix.confirmation.v.modifiedCode.s
    ELSE storedFix.fix.suggestedCode

\* lines[i + j]?.trim() !== originalCodeLines[j]?.trim() for no j
MatchesAt(lines, originalCodeLines, i) ==
    \A j \in 0..(Len(originalCodeLines) - 1) :
        /\ i + j < Len(lines)
        /\ Trim(lines[i + j + 1]) = Trim(originalCodeLines[j + 1])

\* a mutation of ExactStart: the last index where originalCode matches
ExactStartLast(lines, originalCodeLines) ==
    LET hits == {i \in 0..(Len(lines) - 1) : MatchesAt(lines, originalCodeLines, i)}
    IN IF hits = {} THEN -1 ELSE CHOOSE i \in hits : \A k \in hits : k <= i

\* the first 0-based index where originalCode matches, -1 when none
ExactStart(lines, originalCodeLines) ==
    LET hits == {i \in 0..(Len(lines) - 1) : MatchesAt(lines, originalCodeLines, i)}
    IN IF hits = {} THEN -1 ELSE Least(hits)

\* startLine after the fallback around the reported line
StartLine(lines, originalCodeLines, line) ==
    Bind(ExactStart(lines, originalCodeLines),
         LAMBDA startLine : IF startLine = -1 THEN Max(0, line - 2) ELSE startLine)

\* a mutation of NewContent: the lines after the replaced window are dropped
NewContentNoAfter(originalContent, fix, codeToApply) ==
    Bind(<<Split(originalContent), Split(fix.originalCode), Split(codeToApply)>>,
         LAMBDA split :
             Join(Slice(split[1], 0, StartLine(split[1], split[2], fix.line)) \o split[3]))

NewContent(originalContent, fix, codeToApply) ==
    Bind(<<Split(originalContent), Split(fix.originalCode), Split(codeToApply)>>,
         LAMBDA split :
    Bind(StartLine(split[1], split[2], fix.line),
         LAMBDA startLine :
             LET lines == split[1]
                 originalCodeLines == split[2]
                 newCodeLines == split[3]
             IN IF startLine >= 0
                THEN Join(Slice(lines, 0, startLine) \o newCodeLines
                          \o Slice(lines, startLine + Len(originalCodeLines), Len(lines)))
                ELSE originalContent \o "\n\n// TODO: Apply fix manually\n// "
                     \o JoinWith(newCodeLines, "\n// ")))

\* path.extname(fix.file): every fix of the model is in one TypeScript file
FileExt == ".ts"

validateSyntax(ext, content) ==
    IF ext \in {".js", ".jsx", ".ts", ".tsx"}
    THEN /\ CountChar(content, "{") = CountChar(content, "}")
         /\ CountChar(content, "(") = CountChar(content, ")")
    ELSE TRUE

\* One hunk of generateUnifiedDiff: the "@@ -start,oldLen +start,newLen @@" line
\* and the '-' / '+' lines under it; the hunk flushed after the loop has no
\* lengths in its "@@ -start +start @@" line (counted = FALSE)
\* a mutation of Hunk: the header states the 0-based hunkStart
HunkZeroBased(hunkStart, hunk, counted) ==
    [start |-> hunkStart, counted |-> counted, oldLen |-> 0, newLen |-> 0,
     lines |-> hunk]

Hunk(hunkStart, hunk, counted) ==
    [start |-> hunkStart + 1,
     counted |-> counted,
     oldLen |-> IF counted
                THEN Cardinality({k \in 1..Len(hunk) :
                         StartsWith(hunk[k], "-") \/ StartsWith(hunk[k], " ")})
                ELSE 0,
     newLen |-> IF counted
                THEN Cardinality({k \in 1..Len(hunk) :
                         StartsWith(hunk[k], "+") \/ StartsWith(hunk[k], " ")})
                ELSE 0,
     lines |-> hunk]

\* the look-ahead of generateUnifiedDiff: the least lookAhead in 1..3 at which
\* lines were removed (original[i + lookAhead] = modified[j]) or, failing that
\* at the same lookAhead, added (original[i] = modified[j + lookAhead])
LookAheadLimit == 3

Removed(o, m, i, j, la) == At(o, i + la) = At(m, j)
Added(o, m, i, j, la) == At(o, i) = At(m, j + la)

LookAheads(o, m, i, j) ==
    {la \in 1..LookAheadLimit : Removed(o, m, i, j, la) \/ Added(o, m, i, j, la)}

\* the loop of generateUnifiedDiff from cursors i, j with the open hunk
RECURSIVE UnifiedLoop(_, _, _, _, _, _, _)
UnifiedLoop(o, m, i, j, hunkStart, hunk, out) ==
    IF ~(i < Len(o) \/ j < Len(m))
    THEN IF Len(hunk) > 0 THEN Append(out, Hunk(hunkStart, hunk, FALSE)) ELSE out
    ELSE IF At(o, i) = At(m, j)
    THEN UnifiedLoop(o, m, i + 1, j + 1, -1, <<>>,
                     IF Len(hunk) > 0 THEN Append(out, Hunk(hunkStart, hunk, TRUE)) ELSE out)
    ELSE LET hs == IF hunkStart = -1 THEN i ELSE hunkStart
             found == LookAheads(o, m, i, j)
             la == Least(found)
         IN IF found # {}
            THEN IF Removed(o, m, i, j, la)
                 THEN UnifiedLoop(o, m, i + la, j, hs,
                          hunk \o [k \in 1..la |-> "-" \o Show(At(o, i + k - 1))], out)
                 ELSE UnifiedLoop(o, m, i, j + la, hs,
                          hunk \o [k \in 1..la |-> "+" \o Show(At(m, j + k - 1))], out)
            ELSE UnifiedLoop(o, m,
                     IF i < Len(o) THEN i + 1 ELSE i,
                     IF j < Len(m) THEN j + 1 ELSE j,
                     hs,
                     hunk \o (IF i < Len(o) THEN <<"-" \o o[i + 1]>> ELSE <<>>)
                          \o (IF j < Len(m) THEN <<"+" \o m[j + 1]>> ELSE <<>>),
                     out)

\* the hunks of generateUnifiedDiff(original, modified, filename), after the
\* two file-name lines
generateUnifiedDiff(original, modified) ==
    UnifiedLoop(Split(original), Split(modified), 0, 0, -1, <<>>, <<>>)

\* what the backup file is given: the content read before the change
BackupContent(originalContent, newContent) == originalContent

\* what a failed validation or a failed write puts back
RestoreContent(originalContent, newContent) == originalContent

\* backupPath && fs.existsSync(backupPath)
CanRestore(backupPath, backupFiles) == backupPath.def /\ backupPath.v \in DOMAIN backupFiles

\* fs.writeFileSync(path, content) on a file: "ok", or it throws having changed
\* nothing ("fail"), or having truncated the file ("torn")
WriteFile(old, content, io) ==
    CASE io = "ok" -> content
      [] io = "torn" -> ""
      [] OTHER -> old

PutFile(dir, path, content) ==
    [k \in DOMAIN dir \cup {path} |-> IF k = path THEN content ELSE dir[k]]

\* The result of a call and the state it leaves: success / threw are what the
\* caller sees, wrote says the target file was opened for writing, backedUp
\* that the backup file was written before that.
Outcome(success, threw, f, bk, store, wrote, backedUp) ==
    [success |-> success, threw |-> threw, file |-> f, backups |-> bk,
     store |-> store, wrote |-> wrote, backedUp |-> backedUp]

\* applyFix from the backup step on (not a dry run)
ApplyWrite(store, fixId, storedFix, originalContent, newContent, bk, t, backup, validate, backupIo, writeIo, restoreIo) ==
    LET backedUp == backup /\ backupIo = "ok"
        \* backupPath is assigned once the directory exists, before the write
        backupPath == IF backup /\ backupIo # "mkdir" THEN Some(t) ELSE Undefined
        bk1 == IF backup /\ backupIo \in {"ok", "torn"}
               THEN PutFile(bk, t, WriteFile("", BackupContent(originalContent, newContent),
                                             backupIo))
               ELSE bk
        written == WriteFile(originalContent, newContent, writeIo)
        restored == RestoreContent(originalContent, newContent)
    IN IF writeIo # "ok"
       THEN \* catch of the write: restore when a backup file exists, then fail
            IF CanRestore(backupPath, bk1)
            THEN IF restoreIo = "ok"
                 THEN Outcome(FALSE, FALSE, restored, bk1, store, TRUE, backedUp)
                 ELSE Outcome(FALSE, TRUE, written, bk1, store, TRUE, backedUp)
            ELSE Outcome(FALSE, FALSE, written, bk1, store, TRUE, backedUp)
       ELSE IF validate /\ ~validateSyntax(FileExt, newContent)
       THEN IF CanRestore(backupPath, bk1)
            THEN IF restoreIo = "ok"
                 THEN Outcome(FALSE, FALSE, restored, bk1, store, TRUE, backedUp)
                 ELSE Outcome(FALSE, TRUE, written, bk1, store, TRUE, backedUp)
            ELSE Outcome(FALSE, FALSE, written, bk1, store, TRUE, backedUp)
       ELSE Outcome(TRUE, FALSE, written, bk1,
                    updateFixApplication(store, fixId,
                        [success |-> TRUE, backupPath |-> backupPath]),
                    TRUE, backedUp)

\* a mutation of applyFix: a dry run goes on to write like any other call
applyFixWetRun(store, fixId, f, bk, t, backup, validate, dryRun, readOk, backupIo, writeIo, restoreIo) ==
    LET found == getFixById(store, fixId)
        unchanged == Outcome(FALSE, FALSE, f, bk, store, FALSE, FALSE)
    IN IF ~found.def THEN unchanged
       ELSE IF NotConfirmed(found.v) THEN unchanged
       ELSE IF ~readOk THEN unchanged
       ELSE Bind(NewContent(f, found.v.fix, CodeToApply(found.v)),
                 LAMBDA newContent :
                     ApplyWrite(store, fixId, found.v, f, newContent, bk, t,
                                backup, validate, backupIo, writeIo, restoreIo))

applyFix(store, fixId, f, bk, t, backup, validate, dryRun, readOk, backupIo, writeIo, restoreIo) ==
    LET found == getFixById(store, fixId)
        unchanged == Outcome(FALSE, FALSE, f, bk, store, FALSE, FALSE)
    IN IF ~found.def THEN unchanged
       ELSE IF NotConfirmed(found.v) THEN unchanged
       ELSE IF ~readOk THEN unchanged
       ELSE IF dryRun THEN Outcome(TRUE, FALSE, f, bk, store, FALSE, FALSE)
       ELSE Bind(NewContent(f, found.v.fix, CodeToApply(found.v)),
                 LAMBDA newContent :
                     ApplyWrite(store, fixId, found.v, f, newContent, bk, t,
                                backup, validate, backupIo, writeIo, restoreIo))

rollbackFix(store, fixId, f, bk, readOk, writeIo) ==
    LET found == getFixById(store, fixId)
        unchanged == Outcome(FALSE, FALSE, f, bk, store, FALSE, FALSE)
    IN IF ~found.def \/ ~found.v.application.def THEN unchanged
       ELSE IF ~found.v.application.v.backupPath.def THEN unchanged
       ELSE LET path == found.v.application.v.backupPath.v
            IN IF ~readOk \/ path \notin DOMAIN bk THEN unchanged
               ELSE Outcome(writeIo = "ok", FALSE, WriteFile(f, bk[path], writeIo),
                            bk, store, TRUE, FALSE)

\* a mutation of confirmFix: an id that is not in the store is confirmed too
confirmFixUnchecked(store, fixId, action, modifiedCode) ==
    Outcome(TRUE, FALSE, "", <<>>,
            updateFixConfirmation(store, fixId,
                [action |-> action, modifiedCode |-> modifiedCode]),
            FALSE, FALSE)

confirmFix(store, fixId, action, modifiedCode) ==
    LET found == getFixById(store, fixId)
    IN IF ~found.def THEN Outcome(FALSE, FALSE, "", <<>>, store, FALSE, FALSE)
       ELSE Outcome(TRUE, FALSE, "", <<>>,
                    updateFixConfirmation(store, fixId,
                        [action |-> action, modifiedCode |-> modifiedCode]),
                    FALSE, FALSE)

\* suggestFixes on a list of issues: one stored fix per issue that has a fix
RECURSIVE suggestFixes(_, _, _, _, _)
suggestFixes(store, issues, platform, readable, f) ==
    IF Len(issues) = 0 THEN store
    ELSE Bind(generateFixSuggestion(issues[1], platform, readable, f),
              LAMBDA suggestion :
         Bind(IF suggestion.none THEN store
              ELSE saveFix(store, NextId(store),
                           [line |-> suggestion.line,
                            confidence |-> suggestion.confidence,
                            originalCode |-> suggestion.originalCode,
                            suggestedCode |-> suggestion.suggestedCode,
                            diff |-> suggestion.diff,
                            status |-> suggestion.status]),
              LAMBDA store1 : suggestFixes(store1, Tail(issues), platform, readable, f)))

-----------------------------------------------------------------------------
(* Inputs of the model *)

Str(s) == [def |-> TRUE, s |-> s]
NoStr == [def |-> FALSE, s |-> ""]

\* contents of the target file when the session starts
InitialFiles == {"a!.b\n}", " a!.b\n\nc!.d"}

Issue(type, title, line) == [type |-> type, title |-> title, line |-> line, code |-> ""]

\* issues as the detectors report them (detectLogicErrors.ts)
IssueKinds == {<<"null_reference", "Non-null assertion operator">>,
               <<"type_mismatch", "Usage of any type">>}

IssueLines == {1}

Issues == {Issue(k[1], k[2], l) : k \in IssueKinds, l \in IssueLines}

IssueLists == UNION {[1..n -> Issues] : n \in 1..MaxIssues}

\* the (action, modifiedCode) pairs given to confirm_fix
Confirmations == {<<"approve", NoStr>>, <<"reject", NoStr>>, <<"modify", Str("}")>>}

\* what the file system does during one applyFix call: whether the file can be
\* read, how the backup goes ("mkdir": the directory cannot be made, "write":
\* the backup file cannot be opened, "torn": its write fails part-way), how the
\* write goes and how the restore
Io(read, backupIo, writeIo, restoreIo) ==
    [read |-> read, backup |-> backupIo, write |-> writeIo, restore |-> restoreIo]

ReadFails == Io(FALSE, "ok", "ok", "ok")

WriteIo == {"ok", "fail", "torn"}

\* the outcomes that make a difference to a call with these parameters
ApplyIos(backup, dryRun) ==
    {ReadFails} \cup
    {Io(TRUE, b, w, r) :
        b \in (IF backup /\ ~dryRun THEN {"ok", "mkdir", "write", "torn"} ELSE {"ok"}),
        w \in (IF dryRun THEN {"ok"} ELSE WriteIo),
        r \in (IF backup /\ ~dryRun THEN {"ok", "fail"} ELSE {"ok"})}

RollbackIos == {ReadFails} \cup {Io(TRUE, "ok", w, "ok") : w \in WriteIo}

-----------------------------------------------------------------------------
(* The tool calls as actions *)

\* what the caller of the most recent tool call got back
Returned(op, id, o) ==
    [op |-> op, id |-> id,
     result |-> IF o.threw THEN "threw" ELSE IF o.success THEN "ok" ELSE "fail"]

NoCall == [op |-> "none", id |-> 0, result |-> "ok"]

\* history: the fix whose successful apply was the last write to the file
\* (stage "applied"), the file before that apply, the fix's status at that
\* moment and whether the apply changed the file; stage "rolled" right after
\* the successful rollback of that fix, with no write to the file in between
GhostNone == [stage |-> "none", id |-> 0, pre |-> "", confirmed |-> FALSE, changed |-> FALSE]

\* the history after a call that did not write to the file
Kept(g) == IF g.stage = "rolled" THEN GhostNone ELSE g

StatusOf(store, id) == IF id \in DOMAIN store THEN store[id].fix.status ELSE "absent"

\* whether the stored fix has an application record with a backup path
HasBackupPath(store, id) ==
    /\ id \in DOMAIN store
    /\ store[id].application.def
    /\ store[id].application.v.backupPath.def

Idle == UNCHANGED <<reqs, stack, call>>

\* one more tool call of the session
Called == calls < MaxCalls /\ calls' = calls + 1

Tick ==
    /\ now < MaxClock
    /\ now' = now + 1
    /\ UNCHANGED <<file, backups, fixes, last, ghost, calls>>
    /\ Idle

SuggestFixes ==
    \E issues \in IssueLists, readable \in BOOLEAN :
        /\ Cardinality(DOMAIN fixes) + Len(issues) <= MaxFixes
        /\ fixes' = suggestFixes(fixes, issues, "web", readable, file)
        /\ last' = [op |-> "suggest", id |-> 0, result |-> "ok"]
        /\ Called
        /\ ghost' = Kept(ghost)
        /\ UNCHANGED <<file, backups, now>>
        /\ Idle

ConfirmFix ==
    \E id \in FixIds, c \in Confirmations :
        \E o \in {confirmFix(fixes, id, c[1], c[2])} :
           /\ fixes' = o.store
           /\ last' = Returned("confirm", id, o)
           /\ Called
           /\ ghost' = Kept(ghost)
           /\ UNCHANGED <<file, backups, now>>
           /\ Idle

ApplyFix ==
    \E id \in FixIds, backup \in BOOLEAN, validate \in BOOLEAN, dryRun \in BOOLEAN :
        \E io \in ApplyIos(backup, dryRun) :
            \E o \in {applyFix(fixes, id, file, backups, now, backup, validate, dryRun,
                                io.read, io.backup, io.write, io.restore)} :
               /\ Called
               /\ file' = o.file
               /\ backups' = o.backups
               /\ fixes' = o.store
               /\ last' = Returned(IF dryRun THEN "preview" ELSE "apply", id, o)
               /\ ghost' = IF o.success /\ ~dryRun
                           THEN [stage |-> "applied", id |-> id, pre |-> file,
                                 confirmed |-> StatusOf(fixes, id) = "confirmed",
                                 changed |-> o.file # file]
                           ELSE IF o.wrote THEN GhostNone ELSE Kept(ghost)
               /\ UNCHANGED now
               /\ Idle

RollbackFix ==
    \E id \in FixIds, io \in RollbackIos :
        \E o \in {rollbackFix(fixes, id, file, backups, io.read, io.write)} :
           /\ Called
           /\ file' = o.file
           /\ last' = Returned("rollback", id, o)
           /\ ghost' = IF o.wrote
                       THEN (IF o.success /\ ghost.stage = "applied" /\ ghost.id = id
                             THEN [ghost EXCEPT !.stage = "rolled"] ELSE GhostNone)
                       ELSE Kept(ghost)
           /\ UNCHANGED <<backups, fixes, now>>
           /\ Idle

Init ==
    /\ file \in InitialFiles
    /\ backups = <<>>
    /\ now = 0
    /\ fixes = <<>>
    /\ last = NoCall
    /\ ghost = GhostNone
    /\ reqs = <<>>
    /\ stack = <<>>
    /\ call = NoCall
    /\ calls = 0

Next ==
    \/ Tick
    \/ SuggestFixes
    \/ ConfirmFix
    \/ ApplyFix
    \/ RollbackFix

Spec == Init /\ [][Next]_vars

-----------------------------------------------------------------------------
(* Claims about the remediation state machine *)

\* a step that is the tool call op on fix id
IsCall(op, id) == calls' # calls /\ last'.op = op /\ last'.id = id

\* C1: for every stored fix whose status is not 'confirmed', applyFix returns a
\* failure result and leaves the target file unchanged.
C1_ApplyOnlyConfirmed ==
    [][\A id \in DOMAIN fixes :
          (IsCall("apply", id) /\ fixes[id].fix.status # "confirmed")
              => (last'.result = "fail" /\ file' = file)]_vars

LegalEdges == {<<"pending", "confirmed">>, <<"pending", "rejected">>,
               <<"confirmed", "applied">>, <<"confirmed", "failed">>,
               <<"applied", "rolled_back">>}

\* C2: a fix's stored status changes only along the edges pending->confirmed,
\* pending->rejected, confirmed->applied, confirmed->failed and
\* applied->rolled_back, whatever calls are made.
C2_OnlyLegalEdges ==
    [][\A id \in DOMAIN fixes :
          \/ fixes'[id].fix.status = fixes[id].fix.status
          \/ <<fixes[id].fix.status, fixes'[id].fix.status>> \in LegalEdges]_vars

\* C3: whenever applyFix (not a dry run) returns success=false, the target
\* file's content is what it was before the call.
C3_FailedApplyRestores ==
    [][\A id \in FixIds :
          (IsCall("apply", id) /\ last'.result = "fail") => file' = file]_vars

\* C4: every time applyFix overwrites the target file, a backup file holding
\* the pre-write content has been written before.
C4_BackupBeforeWrite ==
    [][\A id \in FixIds :
          (IsCall("apply", id) /\ file' # file)
              => (now \in DOMAIN backups' /\ backups'[now] = file)]_vars

\* C5: for a confirmed fix, a successful applyFix followed by a successful
\* rollbackFix of the same fix, with no other write to the file in between,
\* leaves the file equal to its content before applyFix.
C5_RollbackRestores ==
    (ghost.stage = "rolled" /\ ghost.confirmed) => file = ghost.pre

\* C6: rollbackFix succeeds only for a fix whose status is 'applied' and whose
\* application record has a backup path; for any other fix it returns failure
\* and leaves the target file unchanged.
C6_RollbackOnlyApplied ==
    [][\A id \in FixIds :
          (IsCall("rollback", id)
           /\ ~(StatusOf(fixes, id) = "applied" /\ HasBackupPath(fixes, id)))
              => (last'.result = "fail" /\ file' = file)]_vars

\* C7: after rollbackFix returns success, the fix's stored status is
\* 'rolled_back'.
C7_RolledBackStatus ==
    (last.op = "rollback" /\ last.result = "ok")
        => StatusOf(fixes, last.id) = "rolled_back"

-----------------------------------------------------------------------------
(* The diff engines and the synthesizer as functions of their inputs *)

\* lines of the texts given to generateUnifiedDiff
DiffAlphabet == {"a", "b", ""}

DiffTexts == {Join(ls) : ls \in UNION {[1..n -> DiffAlphabet] : n \in 1..MaxDiffLines}}

Platforms == {"ios", "android", "flutter", "react-native", "web"}

\* (type, title) of the issues the detectors report
DetectedKinds ==
    {<<"null_reference", "Non-null assertion operator">>,
     <<"null_reference", "Force unwrap of optional">>,
     <<"null_reference", "Not-null assertion operator">>,
     <<"race_condition", "Async state update without mount check">>,
     <<"race_condition", "Multiple setState calls">>,
     <<"state_inconsistency", "Derived state may become stale">>,
     <<"type_mismatch", "Usage of any type">>,
     <<"memory_leak", "Timer not invalidated">>,
     <<"memory_leak", "NotificationCenter observer not removed">>,
     <<"memory_leak", "BroadcastReceiver not unregistered">>,
     <<"memory_leak", "Event listener not removed">>,
     <<"retain_cycle", "Potential retain cycle in closure">>,
     <<"unclosed_resource", "StreamSubscription not cancelled">>}

\* windows of source code around a reported line
CodeWindows == {"a!.b", "a!.b\n}", " x\n\ny!.z", "a!!.b\n", "{ self.a!\n\n}", "x\n",
                "await f();\nsetState (x);"}

PureInputs ==
    {[op |-> "diffInput", original |-> o, modified |-> m] : o \in DiffTexts, m \in DiffTexts}
    \cup
    {[op |-> "fixInput", platform |-> p, issue |-> Issue(k[1], k[2], 1), code |-> c] :
        p \in Platforms, k \in DetectedKinds, c \in CodeWindows}

Quiet == UNCHANGED <<file, backups, now, fixes, last, ghost, reqs, stack, calls>>

GenerateUnifiedDiff ==
    /\ call.op = "diffInput"
    /\ call' = [op |-> "unifiedDiff", original |-> call.original,
                modified |-> call.modified,
                hunks |-> generateUnifiedDiff(call.original, call.modified)]
    /\ Quiet

GenerateFixSuggestion ==
    /\ call.op = "fixInput"
    /\ call' = [op |-> "fix", platform |-> call.platform, issue |-> call.issue,
                fix |-> generateFixSuggestion(call.issue, call.platform, TRUE, call.code)]
    /\ Quiet

PureInit ==
    /\ call \in PureInputs
    /\ file = ""
    /\ backups = <<>>
    /\ now = 0
    /\ fixes = <<>>
    /\ last = NoCall
    /\ ghost = GhostNone
    /\ reqs = <<>>
    /\ stack = <<>>
    /\ calls = 0

PureNext == GenerateUnifiedDiff \/ GenerateFixSuggestion

SpecPure == PureInit /\ [][PureNext]_vars

\* the payloads of the lines of a hunk that start with sign
Payloads(hunkLines, sign) ==
    LET RECURSIVE Pick(_)
        Pick(k) ==
            IF k > Len(hunkLines) THEN <<>>
            ELSE (IF StartsWith(hunkLines[k], sign)
                  THEN <<SubSeq(hunkLines[k], 2, Len(hunkLines[k]))>> ELSE <<>>)
                 \o Pick(k + 1)
    IN Pick(1)

\* original with the '-' lines of every hunk replaced by the hunk's '+' lines
\* at the hunk's stated position; done is how many original lines are consumed
RECURSIVE ApplyHunks(_, _, _)
ApplyHunks(o, hunks, done) ==
    IF Len(hunks) = 0 THEN SubSeq(o, done + 1, Len(o))
    ELSE LET h == hunks[1]
             minus == Payloads(h.lines, "-")
         IN SubSeq(o, done + 1, h.start - 1) \o Payloads(h.lines, "+")
            \o ApplyHunks(o, Tail(hunks), h.start - 1 + Len(minus))

\* every hunk's '-' lines are the lines of original at its stated position
HunksFit(o, hunks) ==
    \A n \in 1..Len(hunks) :
        LET minus == Payloads(hunks[n].lines, "-")
        IN /\ hunks[n].start >= 1
           /\ hunks[n].start - 1 + Len(minus) <= Len(o)
           /\ SubSeq(o, hunks[n].start, hunks[n].start - 1 + Len(minus)) = minus

\* C9: for all (original, modified), replacing in original the '-' lines of
\* every hunk of generateUnifiedDiff with the hunk's '+' lines, at the hunk's
\* stated position, yields exactly modified.
C9_UnifiedDiffRoundTrip ==
    call.op = "unifiedDiff" =>
        /\ HunksFit(Split(call.original), call.hunks)
        /\ ApplyHunks(Split(call.original), call.hunks, 0) = Split(call.modified)

\* a diff of several hunks, with removed and added lines, has been applied
C9_Witness ==
    /\ call.op = "unifiedDiff"
    /\ Len(call.hunks) >= 2
    /\ Len(Payloads(call.hunks[1].lines, "-")) >= 1
    /\ Len(Payloads(call.hunks[2].lines, "+")) >= 2
    /\ ApplyHunks(Split(call.original), call.hunks, 0) = Split(call.modified)

\* the lines of a generateDiff text that a side of the change keeps: the
\* context lines and the lines marked with sign, without their two-character mark
DiffSide(diff, sign) ==
    LET ls == Split(diff)
        RECURSIVE Pick(_)
        Pick(k) ==
            IF k > Len(ls) THEN <<>>
            ELSE (IF StartsWith(ls[k], "  ") \/ StartsWith(ls[k], sign)
                  THEN <<SubSeq(ls[k], 3, Len(ls[k]))>> ELSE <<>>)
                 \o Pick(k + 1)
    IN Pick(1)

\* C10: for every fix produced by suggestFixes, applying the '+' lines of
\* fix.diff in place of its '-' lines to fix.originalCode reproduces
\* fix.suggestedCode exactly, also when a changed line is empty on either side.
C10_FixDiffRoundTrip ==
    (call.op = "fix" /\ ~call.fix.none) =>
        DiffSide(call.fix.diff, "+ ") = Split(call.fix.suggestedCode)

-----------------------------------------------------------------------------
(* apply_fix requests on one server: the handler of a request, step by step *)

\* target files with two reported lines whose code windows do not overlap
ConcFiles == {"a!.b\n1\n2\n3\n4\n5\n6\n7\nc!.d",
              "{ a!.b\n1\n2\n3\n4\n}\n6\n7\n{ c!.d }"}

ConcIssues == <<Issue("null_reference", "Non-null assertion operator", 1),
                Issue("null_reference", "Non-null assertion operator", 9)>>

RECURSIVE ApproveAll(_, _)
ApproveAll(store, ids) ==
    IF ids = {} THEN store
    ELSE LET id == Least(ids)
         IN ApproveAll(confirmFix(store, id, "approve", NoStr).store, ids \ {id})

\* the store after suggest_fixes on the file and confirm_fix(approve) on each fix
ConfirmedStore(f) ==
    Bind(suggestFixes(<<>>, ConcIssues, "web", TRUE, f),
         LAMBDA store : ApproveAll(store, DOMAIN store))

Request(backup) ==
    [pc |-> "queued", backup |-> backup, originalContent |-> "", newContent |-> "",
     backupPath |-> Undefined]

\* the handler whose frame is on top of the call stack
Running(id) == stack # <<>> /\ stack[Len(stack)] = id /\ id \in DOMAIN reqs

Returns == stack' = SubSeq(stack, 1, Len(stack) - 1)

\* a mutation of CanDispatch: a handler is started while another one runs
AnyTime == TRUE

\* applyFix is a synchronous function: the server takes the next request
\* only when no handler is on the call stack
CanDispatch == stack = <<>>

Arrive ==
    \E id \in DOMAIN fixes, backup \in BOOLEAN :
        /\ id \notin DOMAIN reqs
        /\ reqs' = [k \in DOMAIN reqs \cup {id} |->
                       IF k = id THEN Request(backup) ELSE reqs[k]]
        /\ UNCHANGED <<file, backups, now, fixes, last, ghost, stack, call, calls>>

Dispatch ==
    \E id \in DOMAIN reqs :
        /\ CanDispatch
        /\ reqs[id].pc = "queued"
        /\ IF NotConfirmed(fixes[id])
           THEN /\ reqs' = [reqs EXCEPT ![id].pc = "failed"]
                /\ UNCHANGED stack
           ELSE /\ reqs' = [reqs EXCEPT ![id].pc = "read"]
                /\ stack' = Append(stack, id)
        /\ UNCHANGED <<file, backups, now, fixes, last, ghost, call, calls>>

ReadTarget ==
    \E id \in DOMAIN reqs :
        /\ Running(id)
        /\ reqs[id].pc = "read"
        /\ reqs' = [reqs EXCEPT
               ![id].originalContent = file,
               ![id].newContent = NewContent(file, fixes[id].fix, CodeToApply(fixes[id])),
               ![id].pc = IF reqs[id].backup THEN "backup" ELSE "open"]
        /\ UNCHANGED <<file, backups, now, fixes, last, ghost, stack, call, calls>>

WriteBackup ==
    \E id \in DOMAIN reqs :
        /\ Running(id)
        /\ reqs[id].pc = "backup"
        /\ backups' = PutFile(backups, now,
                          BackupContent(reqs[id].originalContent, reqs[id].newContent))
        /\ reqs' = [reqs EXCEPT ![id].backupPath = Some(now), ![id].pc = "open"]
        /\ UNCHANGED <<file, now, fixes, last, ghost, stack, call, calls>>

\* fs.writeFileSync opens the target, which empties it, ...
OpenTarget ==
    \E id \in DOMAIN reqs :
        /\ Running(id)
        /\ reqs[id].pc = "open"
        /\ file' = ""
        /\ reqs' = [reqs EXCEPT ![id].pc = "data"]
        /\ UNCHANGED <<backups, now, fixes, last, ghost, stack, call, calls>>

\* ... and then writes the new content
WriteTarget ==
    \E id \in DOMAIN reqs :
        /\ Running(id)
        /\ reqs[id].pc = "data"
        /\ file' = reqs[id].newContent
        /\ reqs' = [reqs EXCEPT ![id].pc = "validate"]
        /\ UNCHANGED <<backups, now, fixes, last, ghost, stack, call, calls>>

\* validation, then the application record, and the handler returns
Finish ==
    \E id \in DOMAIN reqs :
        /\ Running(id)
        /\ reqs[id].pc = "validate"
        /\ IF ~validateSyntax(FileExt, reqs[id].newContent)
           THEN /\ file' = IF CanRestore(reqs[id].backupPath, backups)
                           THEN RestoreContent(reqs[id].originalContent, reqs[id].newContent)
                           ELSE file
                /\ reqs' = [reqs EXCEPT ![id].pc = "failed"]
                /\ UNCHANGED fixes
           ELSE /\ fixes' = updateFixApplication(fixes, id,
                                [success |-> TRUE, backupPath |-> reqs[id].backupPath])
                /\ reqs' = [reqs EXCEPT ![id].pc = "applied"]
                /\ UNCHANGED file
        /\ Returns
        /\ UNCHANGED <<backups, now, last, ghost, call, calls>>

ConcInit ==
    /\ file \in ConcFiles
    /\ backups = <<>>
    /\ now = 0
    /\ fixes = ConfirmedStore(file)
    /\ last = NoCall
    /\ ghost = GhostNone
    /\ reqs = <<>>
    /\ stack = <<>>
    /\ call = NoCall
    /\ calls = 0

ConcNext ==
    \/ Tick
    \/ Arrive
    \/ Dispatch
    \/ ReadTarget
    \/ WriteBackup
    \/ OpenTarget
    \/ WriteTarget
    \/ Finish

SpecConc == ConcInit /\ [][ConcNext]_vars

\* the request has read the file and its write is not complete
InFlight(id) == reqs[id].pc \in {"backup", "open", "data"}

\* C8: two apply requests for different fixes against the same file are
\* serialized: no request reads the file while another request's write is
\* incomplete, the content a request has read is the file's content until that
\* request itself writes, and of two applied requests one has read what the
\* other wrote.
C8_AppliesSerialized ==
    /\ \A id \in DOMAIN reqs :
          reqs[id].pc \in {"backup", "open"} => reqs[id].originalContent = file
    /\ \A id \in DOMAIN reqs, other \in DOMAIN reqs :
          (id # other /\ InFlight(other)) => reqs[id].pc \in {"queued", "applied", "failed"}
    /\ \A id \in DOMAIN reqs, other \in DOMAIN reqs :
          (id # other /\ reqs[id].pc = "applied" /\ reqs[other].pc = "applied")
              => \/ reqs[other].originalContent = reqs[id].newContent
                 \/ reqs[id].originalContent = reqs[other].newContent

\* both requests are applied, the second having read what the first wrote,
\* and the file holds the changes of both
C8_Witness ==
    \E first \in DOMAIN reqs, second \in DOMAIN reqs :
        /\ first # second
        /\ reqs[first].pc = "applied"
        /\ reqs[second].pc = "applied"
        /\ reqs[second].originalContent = reqs[first].newContent
        /\ file = reqs[second].newContent
        /\ file # reqs[first].newContent
        /\ file # NewContent(reqs[first].originalContent, fixes[second].fix,
                             CodeToApply(fixes[second]))

-----------------------------------------------------------------------------
(* The patch locator: applyFix on a confirmed fix as a function of the file *)

PatchFiles == {"x", "x\ny", "x\ny\nz", " y\nx\ny", "x\ny \ny"}

\* originalCode of the fix: "q" and "q\nr" are in no file, "y" is in some
PatchOriginals == {"q", "q\nr", "y"}

PatchCodes == {"s", "s\nt"}

PatchInputs ==
    {[op |-> "patchInput", content |-> c, originalCode |-> o, suggestedCode |-> n,
      line |-> l, backup |-> b, validate |-> v] :
        c \in PatchFiles, o \in PatchOriginals, n \in PatchCodes, l \in 1..MaxLine,
        b \in BOOLEAN, v \in BOOLEAN}

\* a store holding the one fix, approved
ApprovedFix(originalCode, suggestedCode, line) ==
    confirmFix(saveFix(<<>>, 1, [line |-> line, confidence |-> 85,
                                 originalCode |-> originalCode,
                                 suggestedCode |-> suggestedCode,
                                 diff |-> generateDiff(originalCode, suggestedCode),
                                 status |-> "pending"]),
               1, "approve", NoStr).store

\* apply_fix on the approved fix, the file system doing what it is asked
ApplyPatch ==
    /\ call.op = "patchInput"
    /\ \E o \in {applyFix(ApprovedFix(call.originalCode, call.suggestedCode, call.line), 1,
                          call.content, <<>>, 0, call.backup, call.validate, FALSE,
                          TRUE, "ok", "ok", "ok")} :
           call' = [op |-> "patched", content |-> call.content,
                    originalCode |-> call.originalCode,
                    suggestedCode |-> call.suggestedCode, line |-> call.line,
                    file |-> o.file, success |-> o.success, threw |-> o.threw]
    /\ Quiet

ModifiedCodes == {Str("m"), Str("m\nn"), Str(""), NoStr}

ModifyInputs ==
    {[op |-> "modifyInput", content |-> c, originalCode |-> o, suggestedCode |-> "s",
      modifiedCode |-> m, line |-> l, validate |-> v] :
        c \in PatchFiles, o \in PatchOriginals, m \in ModifiedCodes, l \in {1, 3},
        v \in BOOLEAN}

\* confirm_fix with action 'modify' on the pending fix, then apply_fix
ApplyModified ==
    /\ call.op = "modifyInput"
    /\ \E stored \in {confirmFix(saveFix(<<>>, 1,
                                   [line |-> call.line, confidence |-> 85,
                                    originalCode |-> call.originalCode,
                                    suggestedCode |-> call.suggestedCode,
                                    diff |-> generateDiff(call.originalCode,
                                                          call.suggestedCode),
                                    status |-> "pending"]),
                               1, "modify", call.modifiedCode).store} :
       \E o \in {applyFix(stored, 1, call.content, <<>>, 0, TRUE, call.validate, FALSE,
                          TRUE, "ok", "ok", "ok")} :
           call' = [op |-> "modified", content |-> call.content,
                    originalCode |-> call.originalCode,
                    suggestedCode |-> call.suggestedCode,
                    modifiedCode |-> call.modifiedCode,
                    file |-> o.file, success |-> o.success,
                    status |-> StatusOf(o.store, 1)]
    /\ Quiet

PatchInit ==
    /\ call \in PatchInputs \cup ModifyInputs
    /\ file = ""
    /\ backups = <<>>
    /\ now = 0
    /\ fixes = <<>>
    /\ last = NoCall
    /\ ghost = GhostNone
    /\ reqs = <<>>
    /\ stack = <<>>
    /\ calls = 0

PatchNext == ApplyPatch \/ ApplyModified

SpecPatch == PatchInit /\ [][PatchNext]_vars

\* originalCode matches no run of lines of the file
Drifted(content, originalCode) == ExactStart(Split(content), Split(originalCode)) = -1

\* the anchor derived from the reported line
Anchor(line) == Max(0, line - 2)

\* the manual-action block for a code: every line of it in a comment
ManualBlock(code) == "\n\n// TODO: Apply fix manually\n// " \o JoinWith(Split(code), "\n// ")

\* new keeps the lines of old before index from and the lines of old from index
\* to on, in their order, the latter at the end
KeepsOutside(old, new, from, to) ==
    LET head == Min(from, Len(old))
        tail == Max(0, Len(old) - to)
    IN /\ Len(new) >= head + tail
       /\ SubSeq(new, 1, head) = SubSeq(old, 1, head)
       /\ SubSeq(new, Len(new) - tail + 1, Len(new)) = SubSeq(old, Len(old) - tail + 1, Len(old))

\* C11: when the fix's originalCode matches no run of lines of the file,
\* applyFix does not throw and the file afterwards either is the file with a
\* commented manual-action block appended or keeps, in order, every line
\* outside the len(originalCode)-line window at the anchor of the reported line.
C11_DriftedPatchIsLocal ==
    (call.op = "patched" /\ Drifted(call.content, call.originalCode)) =>
        /\ ~call.threw
        /\ \/ call.file = call.content \o ManualBlock(call.suggestedCode)
           \/ KeepsOutside(Split(call.content), Split(call.file), Anchor(call.line),
                           Anchor(call.line) + Len(Split(call.originalCode)))

\* a drifted fix was applied inside the file: lines before and after the
\* window are kept and the window is changed
C11_Witness ==
    /\ call.op = "patched"
    /\ Drifted(call.content, call.originalCode)
    /\ call.success
    /\ call.line = 3
    /\ Len(Split(call.content)) = 3
    /\ Len(Split(call.originalCode)) = 1
    /\ call.file # call.content

\* C12: when originalCode is not found and the anchor of the reported line lies
\* beyond the end of the file, applyFix appends the suggested code as a
\* commented-out manual-action block and changes none of the existing lines.
C12_NoAnchorAppendsComment ==
    (/\ call.op = "patched"
     /\ Drifted(call.content, call.originalCode)
     /\ Anchor(call.line) >= Len(Split(call.content)))
        => call.file = call.content \o ManualBlock(call.suggestedCode)

-----------------------------------------------------------------------------
(* Claims about failures of the tool calls *)

\* C13: applyFix (dry run or not), confirmFix and rollbackFix called with an
\* id that is not in the fix store return a failure result without throwing and
\* change neither the file, nor a backup, nor any stored fix.
C13_UnknownIdFails ==
    [][\A id \in FixIds \ DOMAIN fixes :
          (\E op \in {"apply", "preview", "confirm", "rollback"} : IsCall(op, id))
              => /\ last'.result = "fail"
                 /\ file' = file
                 /\ backups' = backups
                 /\ fixes' = fixes]_vars

\* a call on an unknown id has failed while the store holds another, applied fix
C13_Witness ==
    /\ last.op \in {"apply", "confirm", "rollback"}
    /\ last.id \notin DOMAIN fixes
    /\ last.result = "fail"
    /\ \E id \in DOMAIN fixes : fixes[id].fix.status = "applied"

\* C14: when applyFix (not a dry run) on a fix of status 'confirmed' fails, the
\* fix's stored status becomes 'failed' and getConfirmedFixes no longer returns it.
C14_FailedApplyMarksFailed ==
    [][\A id \in DOMAIN fixes :
          (/\ IsCall("apply", id)
           /\ fixes[id].fix.status = "confirmed"
           /\ last'.result = "fail")
              => /\ fixes'[id].fix.status = "failed"
                 /\ id \notin getConfirmedFixes(fixes')]_vars

\* C15: each applyFix attempt (not a dry run) that passes the confirmation check
\* of a stored fix leaves an application record for the fix, and the record of
\* an earlier attempt, with its backup path, is still the stored one afterwards.
C15_ApplicationRecordsKept ==
    [][\A id \in DOMAIN fixes :
          (IsCall("apply", id) /\ ~NotConfirmed(fixes[id]))
              => /\ fixes'[id].application.def
                 /\ fixes[id].application.def
                        => fixes'[id].application = fixes[id].application]_vars

\* ---------------------------------------------------------------------------
\* The fixing phase of runFullAutomation (runFullAutomation.ts): the policy
\* that decides which suggestions are confirmed and applied without a person
\* calling confirm_fix and apply_fix.
\* ---------------------------------------------------------------------------

AutoFiles == {"{ self.a!\n}", "{ self.a\n}"}

AutoIssues ==
    {Issue("retain_cycle", "Potential retain cycle in closure", 1),
     Issue("null_reference", "Force unwrap of optional", 1)}

AutoIssueLists == UNION {[1..n -> AutoIssues] : n \in 1..2}

ConfirmModes == {"auto", "interactive", "batch"}

CallbackReplies == {"approve", "reject", "modify"}

NoReply == [id |-> 0, action |-> "none"]

Ids(store) == [i \in 1..Cardinality(DOMAIN store) |-> i]

AnyConfidence(fix) == fix.confidence >= 0

\* f => f.confidence >= 90
HighConfidence(fix) == fix.confidence >= 90

RECURSIVE Filter(_, _)
Filter(store, ids) ==
    IF ids = <<>> THEN <<>>
    ELSE IF HighConfidence(store[Head(ids)].fix)
         THEN <<Head(ids)>> \o Filter(store, Tail(ids))
         ELSE Filter(store, Tail(ids))

\* confirmFix({fixId, action: 'approve'}); applyFix({fixId, backup: true, validate: true})
ApproveAndApply(store, id, f, bk, t) ==
    Bind(confirmFix(store, id, "approve", NoStr).store,
         LAMBDA confirmed :
             applyFix(confirmed, id, f, bk, t, TRUE, TRUE, FALSE, TRUE, "ok", "ok", "ok"))

RECURSIVE AutoLoop(_, _, _)
AutoLoop(st, ids, t) ==
    IF ids = <<>> THEN st
    ELSE Bind(ApproveAndApply(st.store, Head(ids), st.file, st.backups, t),
              LAMBDA o :
                  AutoLoop([store |-> o.store, file |-> o.file, backups |-> o.backups,
                            appliedFixes |-> IF o.success
                                             THEN Append(st.appliedFixes, Head(ids))
                                             ELSE st.appliedFixes],
                           Tail(ids), t))

AutoQuiet == UNCHANGED <<now, last, ghost, reqs, stack, calls>>

\* if (autoFix && confirmMode === 'auto')
AutoApply ==
    /\ call.op = "fixing"
    /\ call.autoFix /\ call.confirmMode = "auto"
    /\ \E st \in {AutoLoop([store |-> fixes, file |-> file, backups |-> backups,
                            appliedFixes |-> <<>>],
                           Filter(fixes, call.todo), now)} :
           /\ fixes' = st.store
           /\ file' = st.file
           /\ backups' = st.backups
           /\ call' = [call EXCEPT !.op = "done", !.todo = <<>>,
                                   !.appliedFixes = st.appliedFixes]
    /\ AutoQuiet

\* else if (confirmMode === 'interactive' && onConfirmRequired): one turn of
\* the loop, resumed when the awaited callback answers
InteractiveReply ==
    /\ call.op = "fixing"
    /\ ~(call.autoFix /\ call.confirmMode = "auto")
    /\ call.confirmMode = "interactive" /\ call.callback
    /\ call.todo # <<>>
    /\ \E action \in CallbackReplies :
       \E id \in {Head(call.todo)} :
       \E o \in {IF action = "approve"
                 THEN ApproveAndApply(fixes, id, file, backups, now)
                 ELSE IF action = "reject"
                 THEN Outcome(FALSE, FALSE, file, backups,
                              confirmFix(fixes, id, "reject", NoStr).store, FALSE, FALSE)
                 ELSE Outcome(FALSE, FALSE, file, backups, fixes, FALSE, FALSE)} :
           /\ fixes' = o.store
           /\ file' = o.file
           /\ backups' = o.backups
           /\ call' = [call EXCEPT !.todo = Tail(call.todo),
                                   !.reply = [id |-> id, action |-> action],
                                   !.appliedFixes = IF o.success THEN Append(@, id) ELSE @]
    /\ AutoQuiet

\* else: pendingConfirmations.push(...fixSuggestions)
BatchCollect ==
    /\ call.op = "fixing"
    /\ ~(call.autoFix /\ call.confirmMode = "auto")
    /\ ~(call.confirmMode = "interactive" /\ call.callback)
    /\ call' = [call EXCEPT !.op = "done", !.todo = <<>>,
                            !.pendingConfirmations = call.todo]
    /\ UNCHANGED <<file, backups, fixes>>
    /\ AutoQuiet

AutoInit ==
    /\ file \in AutoFiles
    /\ \E issues \in AutoIssueLists : fixes = suggestFixes(<<>>, issues, "ios", TRUE, file)
    /\ \E autoFix \in BOOLEAN, confirmMode \in ConfirmModes, callback \in BOOLEAN :
           call = [op |-> "fixing", autoFix |-> autoFix, confirmMode |-> confirmMode,
                   callback |-> callback, todo |-> Ids(fixes), reply |-> NoReply,
                   appliedFixes |-> <<>>, pendingConfirmations |-> <<>>]
    /\ backups = <<>>
    /\ now = 0
    /\ last = NoCall
    /\ ghost = GhostNone
    /\ reqs = <<>>
    /\ stack = <<>>
    /\ calls = 0

AutoNext == AutoApply \/ InteractiveReply \/ BatchCollect

SpecAuto == AutoInit /\ [][AutoNext]_vars

\* the step confirms fix id with approve under one of the two policies
Approved(id) ==
    \/ call.autoFix /\ call.confirmMode = "auto" /\ fixes[id].fix.confidence >= 90
    \/ /\ call.confirmMode = "interactive" /\ call.callback
       /\ ~(call.autoFix /\ call.confirmMode = "auto")
       /\ call'.reply = [id |-> id, action |-> "approve"]

Declined(id) ==
    /\ call.confirmMode = "interactive" /\ call.callback
    /\ call'.reply = [id |-> id, action |-> "reject"]

\* C16 (as amended): runFullAutomation applies a fix only after confirming it
\* with action approve, and only when autoFix is on with confirmMode auto and
\* the fix's confidence is at least 90, or when confirmMode is interactive and
\* the callback answered approve for that fix. In every other case the fix is
\* not applied and the file is untouched; the fix stays pending unless the
\* callback answered reject for it, and then it becomes rejected.
C16_AutomationGate ==
    [][/\ \A id \in DOMAIN fixes :
              /\ fixes'[id].application # fixes[id].application
                     => /\ Approved(id)
                        /\ fixes'[id].confirmation.def
                        /\ fixes'[id].confirmation.v.action = "approve"
              /\ ~Approved(id)
                     => \/ fixes'[id] = fixes[id]
                        \/ /\ Declined(id)
                           /\ fixes'[id].fix.status = "rejected"
                           /\ fixes'[id].application = fixes[id].application
       /\ file' # file => \E id \in DOMAIN fixes : Approved(id)]_vars

C16_Witness ==
    /\ call.op = "done" /\ call.autoFix /\ call.confirmMode = "auto"
    /\ \E id \in DOMAIN fixes :
           /\ fixes[id].fix.confidence >= 90
           /\ fixes[id].fix.status = "applied"
           /\ fixes[id].confirmation.v.action = "approve"
    /\ \E id \in DOMAIN fixes :
           /\ fixes[id].fix.confidence < 90
           /\ fixes[id].fix.status = "pending"
    /\ file \notin AutoFiles

\* C16 (as stated): ... in every other case the fix stays pending and its file
\* is untouched.
C16_OthersStayPending ==
    [][/\ \A id \in DOMAIN fixes :
              /\ fixes'[id].application # fixes[id].application => Approved(id)
              /\ ~Approved(id) => fixes'[id].fix.status = "pending"
       /\ file' # file => \E id \in DOMAIN fixes : Approved(id)]_vars

\* ---------------------------------------------------------------------------
\* Claims about the suggestions of the synthesizer
\* ---------------------------------------------------------------------------

TemplateKinds ==
    {"memory_leak", "retain_cycle", "unclosed_resource", "race_condition",
     "state_inconsistency", "null_reference"}

\* C17: every suggestion that generateFixSuggestion returns has suggestedCode
\* different from originalCode, and an issue of a kind without a template gets
\* no suggestion; so a template that changes nothing yields no suggestion, not
\* a no-op fix.
C17_NoNoOpSuggestion ==
    call.op = "fix"
        => /\ ~call.fix.none => call.fix.suggestedCode # call.fix.originalCode
           /\ call.issue.type \notin TemplateKinds => call.fix.none

C17_Witness ==
    /\ call.op = "fix"
    /\ call.issue.type = "null_reference"
    /\ ~call.fix.none
    /\ call.fix.originalCode = "a!.b\n}"
    /\ call.fix.suggestedCode # call.fix.originalCode

\* ---------------------------------------------------------------------------
\* The static detectors (detectLogicErrors.ts, detectMemoryLeaks.ts) run on
\* one file. A detector keeps no state between runs: its issues array and its
\* regular expressions are created in the call. Every /g pattern is driven by
\* exec() from lastIndex 0 until it answers null. The contents below hold none
\* of the words the other patterns need (async, setState, useState, if, await,
\* self., var, useEffect, Handler, ...), so those detectors report nothing.
\* ---------------------------------------------------------------------------

DetectContents ==
    {"", "a!.b", "x\nab!.c d!.e", "try!\n f!", "v!!\nw!!", "x: any\ny:any z:anyone",
     "Timer.scheduledTimer", "q\nsetInterval"}

DetectPlatforms == {"ios", "android", "react-native", "web"}

\* content.substring(0, match.index).split('\n').length, index counted from 1
LineOf(s, index) == CountChar(SubSeq(s, 1, index - 1), "\n") + 1

\* uuidv4() and new Date().toISOString() make the id and the timestamp
DetectedIssue(run, n, t, type, title, s, line) ==
    [id |-> <<run, n>>, type |-> type, title |-> title, line |-> line,
     code |-> Show(IF line >= 1 THEN [def |-> TRUE, s |-> Trim(Split(s)[line])]
                   ELSE [def |-> FALSE, s |-> ""]),
     detectedAt |-> t]

SharedIssues(previous) == previous

\* const issues = []
NewIssues(previous) == <<>>

\* one pattern.exec(content) of /(\w+)BANG/g whose lastIndex stands before from
ExecWordBang(s, from, bang) ==
    IF BangsFrom(s, from + 1, bang) = {}
    THEN [found |-> FALSE, index |-> 0, lastIndex |-> 1, var |-> ""]
    ELSE LET k == Least(BangsFrom(s, from + 1, bang))
             start == Max(from, WordStart(s, k))
         IN [found |-> TRUE, index |-> start, lastIndex |-> k + Len(bang),
             var |-> SubSeq(s, start, k - 1)]

\* while ((match = pattern.exec(content)) !== null) { ... issues.push(...) }
RECURSIVE WordBangLoop(_, _, _, _, _, _, _, _)
WordBangLoop(s, from, bang, skip, title, run, t, issues) ==
    Bind(ExecWordBang(s, from, bang),
         LAMBDA match :
             IF ~match.found THEN issues
             ELSE WordBangLoop(s, match.lastIndex, bang, skip, title, run, t,
                      IF match.var \in skip THEN issues
                      ELSE Append(issues,
                               DetectedIssue(run, Len(issues) + 1, t, "null_reference", title,
                                             s, LineOf(s, match.index)))))

detectNullReferences(s, platform, run, t, issues) ==
    IF platform \in {"react-native", "web"}
    THEN WordBangLoop(s, 1, "!.", {}, "Non-null assertion operator", run, t, issues)
    ELSE IF platform = "ios"
    THEN WordBangLoop(s, 1, "!", {"try", "as", "NSObject"}, "Force unwrap of optional",
                      run, t, issues)
    ELSE IF platform = "android"
    THEN WordBangLoop(s, 1, "!!", {}, "Not-null assertion operator", run, t, issues)
    ELSE issues

\* where /:\s*any\b/ matches at or after from
AnyFrom(s, from) ==
    {k \in MatchesFrom(s, from, <<Lit(":"), WsLit("any")>>) :
        LET e == MatchAt(s, k, <<Lit(":"), WsLit("any")>>)
        IN e > Len(s) \/ ~IsWord(Char(s, e))}

RECURSIVE AnyLoop(_, _, _, _, _)
AnyLoop(s, from, run, t, issues) ==
    IF AnyFrom(s, from) = {} THEN issues
    ELSE Bind(Least(AnyFrom(s, from)),
              LAMBDA k :
                  AnyLoop(s, MatchAt(s, k, <<Lit(":"), WsLit("any")>>), run, t,
                          Append(issues,
                              DetectedIssue(run, Len(issues) + 1, t, "type_mismatch",
                                            "Usage of any type", s, LineOf(s, k)))))

detectTypeMismatches(s, platform, run, t, issues) ==
    IF platform \in {"react-native", "web"} THEN AnyLoop(s, 1, run, t, issues) ELSE issues

\* lines.findIndex(l => l.includes(word)) + 1
FindLine(s, word) ==
    LET hits == {i \in 1..Len(Split(s)) : Includes(Split(s)[i], word)}
    IN IF hits = {} THEN 0 ELSE Least(hits)

\* if (content.includes(has) && !content.includes(lacks)) issues.push(...)
LeakCheck(s, has, lacks, title, run, t, issues) ==
    IF Includes(s, has) /\ ~Includes(s, lacks)
    THEN Append(issues, DetectedIssue(run, Len(issues) + 1, t, "memory_leak", title, s,
                                      FindLine(s, has)))
    ELSE issues

analyzeFileForMemoryLeaks(s, platform, run, t, issues) ==
    IF platform = "ios"
    THEN LeakCheck(s, "Timer.scheduledTimer", "invalidate", "Timer not invalidated",
                   run, t, issues)
    ELSE IF platform \in {"react-native", "web"}
    THEN LeakCheck(s, "setInterval", "clearInterval", "Interval not cleared", run, t, issues)
    ELSE issues

\* performStaticAnalysis, then detectLogicErrors with checkTypes ['all'], on
\* the one file of the project
RunDetectors(s, platform, run, t, previous) ==
    Bind(analyzeFileForMemoryLeaks(s, platform, run, t, NewIssues(previous.leaks)),
         LAMBDA leaks :
    Bind(detectNullReferences(s, platform, run, t, NewIssues(previous.logic)),
         LAMBDA nulls :
             [leaks |-> leaks,
              logic |-> detectTypeMismatches(s, platform, run, t, nulls)]))

NoIssues == [leaks |-> <<>>, logic |-> <<>>]

MaxRuns == 2

Detect ==
    /\ call.op = "detect"
    /\ Len(call.runs) < MaxRuns
    /\ call' = [call EXCEPT !.runs =
                   Append(@, RunDetectors(call.content, call.platform, Len(@) + 1, now,
                                          IF @ = <<>> THEN NoIssues ELSE @[Len(@)]))]
    /\ Quiet

DetectTick ==
    /\ call.op = "detect"
    /\ now < MaxClock
    /\ now' = now + 1
    /\ UNCHANGED <<file, backups, fixes, last, ghost, reqs, stack, call, calls>>

DetectInit ==
    /\ \E content \in DetectContents, platform \in DetectPlatforms :
           call = [op |-> "detect", content |-> content, platform |-> platform,
                   runs |-> <<>>]
    /\ file = ""
    /\ backups = <<>>
    /\ now = 0
    /\ fixes = <<>>
    /\ last = NoCall
    /\ ghost = GhostNone
    /\ reqs = <<>>
    /\ stack = <<>>
    /\ calls = 0

DetectNext == Detect \/ DetectTick

SpecDetect == DetectInit /\ [][DetectNext]_vars

\* an issue without its generated id and timestamp
Findings(issues) ==
    [n \in DOMAIN issues |->
        [type |-> issues[n].type, title |-> issues[n].title, line |-> issues[n].line]]

EntryNames == {"d", "a.ts", "l.ts"}

LinkTargets == {"none", "root", "d", "a.ts", "dangling"}

Orders == {o \in [1..3 -> EntryNames] : \A i, j \in 1..3 : o[i] = o[j] => i = j}

DirNames == {"d", "build"}

\* order: readdirSync's order in the root; link: what l.ts points to; readable:
\* whether d can be listed; statFails: the entries statSync throws on; dname:
\* the name under which the root lists d
WalkSystems ==
    {[order |-> o, link |-> l, readable |-> r, statFails |-> f, dname |-> n] :
        o \in Orders, l \in LinkTargets, r \in BOOLEAN,
        f \in {{}, {"d"}, {"a.ts"}, {"b.ts"}}, n \in DirNames}

NoSkipNames == {}

SkipNames ==
    {"node_modules", ".git", "build", "dist", "Pods", ".gradle", ".idea", "DerivedData"}

Extensions == {".ts"}

\* the maxDepth argument of the walk (10 when the caller leaves it out)
maxDepth == 3

EndsWith(s, suffix) ==
    Len(s) >= Len(suffix) /\ SubSeq(s, Len(s) - Len(suffix) + 1, Len(s)) = suffix

\* fs.readdirSync(currentDir) on the physical directory
readdirSync(fs, dir) ==
    IF dir = "root"
    THEN [threw |-> FALSE,
          items |-> LET listed == SelectSeq(fs.order,
                                            LAMBDA n : n # "l.ts" \/ fs.link # "none")
                    IN [i \in DOMAIN listed |->
                           IF listed[i] = "d" THEN fs.dname ELSE listed[i]]]
    ELSE IF fs.readable THEN [threw |-> FALSE, items |-> <<"b.ts">>]
    ELSE [threw |-> TRUE, items |-> <<>>]

\* fs.statSync(fullPath): the physical object behind the entry
statSync(fs, item) ==
    IF (IF item = fs.dname THEN "d" ELSE item) \in fs.statFails
       \/ (item = "l.ts" /\ fs.link = "dangling")
    THEN [threw |-> TRUE, isDirectory |-> FALSE, phys |-> ""]
    ELSE LET phys == IF item = "l.ts" THEN fs.link
                     ELSE IF item = fs.dname THEN "d" ELSE item
         IN [threw |-> FALSE, isDirectory |-> phys \in {"root", "d"}, phys |-> phys]

\* walk and the body of its for loop; an exception anywhere in the loop ends
\* the loop of this directory (the catch is around the whole try block)
RECURSIVE walk(_, _, _, _, _)
RECURSIVE WalkItems(_, _, _, _, _)
WalkItems(fs, currentDir, items, depth, seen) ==
    IF items = <<>> THEN seen
    ELSE IF Head(items) \in SkipNames
    THEN WalkItems(fs, currentDir, Tail(items), depth, seen)
    ELSE Bind(statSync(fs, Head(items)),
              LAMBDA stat :
                  IF stat.threw THEN seen
                  ELSE IF stat.isDirectory
                  THEN WalkItems(fs, currentDir, Tail(items), depth,
                                 walk(fs, currentDir \o "/" \o Head(items), stat.phys,
                                      depth + 1, seen))
                  ELSE IF \E ext \in Extensions : EndsWith(Head(items), ext)
                  THEN WalkItems(fs, currentDir, Tail(items), depth,
                                 [seen EXCEPT !.results =
                                     Append(@, [path |-> currentDir \o "/" \o Head(items),
                                                phys |-> stat.phys])])
                  ELSE WalkItems(fs, currentDir, Tail(items), depth, seen))

walk(fs, currentDir, dir, depth, seen) ==
    IF depth > maxDepth THEN seen
    ELSE Bind(readdirSync(fs, dir),
              LAMBDA listing :
                  IF listing.threw THEN seen
                  ELSE WalkItems(fs, currentDir, listing.items, depth,
                                 [seen EXCEPT !.listed =
                                     Append(@, [dir |-> dir, path |-> currentDir,
                                                depth |-> depth])]))

getAllFiles(fs) == walk(fs, "p", "root", 0, [results |-> <<>>, listed |-> <<>>])

GetAllFiles ==
    /\ call.op = "walkInput"
    /\ \E seen \in {getAllFiles(call.fs)} :
           call' = [op |-> "walked", fs |-> call.fs, results |-> seen.results,
                    listed |-> seen.listed, threw |-> FALSE]
    /\ Quiet

WalkInit ==
    /\ \E fs \in WalkSystems : call = [op |-> "walkInput", fs |-> fs]
    /\ file = ""
    /\ backups = <<>>
    /\ now = 0
    /\ fixes = <<>>
    /\ last = NoCall
    /\ ghost = GhostNone
    /\ reqs = <<>>
    /\ stack = <<>>
    /\ calls = 0

WalkNext == GetAllFiles

SpecWalk == WalkInit /\ [][WalkNext]_vars

NoRepeat(seq) == \A i, j \in DOMAIN seq : seq[i] = seq[j] => i = j

\* C19: getAllFiles lists no physical directory twice and returns no physical
\* file twice, whatever symbolic links the tree holds.
C19_NoPhysicalRevisit ==
    call.op = "walked"
        => /\ NoRepeat([n \in DOMAIN call.listed |-> call.listed[n].dir])
           /\ NoRepeat([n \in DOMAIN call.results |-> call.results[n].phys])

\* the matching files that can be reached through entries that can be stat'ed
\* and directories that can be listed
Reachable(fs) ==
    (IF "a.ts" \in fs.statFails THEN {} ELSE {"a.ts"})
    \cup (IF fs.readable /\ fs.dname = "d"
             /\ "d" \notin fs.statFails /\ "b.ts" \notin fs.statFails
          THEN {"b.ts"} ELSE {})

\* C20: an entry that cannot be read or stat'ed is skipped, no exception
\* reaches the caller, and every other readable matching file, later
\* siblings included, is still returned.
C20_FailuresSkipOnlyThemselves ==
    call.op = "walked"
        => /\ ~call.threw
           /\ \A f \in Reachable(call.fs) :
                  \E n \in DOMAIN call.results : call.results[n].phys = f

\* the names the walk is to stay out of
Excluded == {"node_modules", ".git", "build", "dist", "Pods", ".gradle", ".idea", "DerivedData"}

ScanContents ==
    {"foo!.bar", "a\nfoo!.bar;\nb", "foo!.bar x!.y", "x = foo!.bar\n}", "(foo!.bar)",
     "foo!.bar\nfoo!.bar", "foo.bar", "q\n\n\n\n\n\n\nfoo!.bar"}

Scan ==
    /\ call.op = "scanInput"
    /\ call' = [op |-> "scanned", content |-> call.content, platform |-> call.platform,
                issues |-> detectNullReferences(call.content, call.platform, 1, now, <<>>)]
    /\ Quiet

Synthesize ==
    /\ call.op = "scanned"
    /\ call' = [op |-> "synthesized", content |-> call.content, platform |-> call.platform,
                issues |-> call.issues,
                fixes |-> [n \in DOMAIN call.issues |->
                              generateFixSuggestion(call.issues[n], call.platform, TRUE,
                                                    call.content)]]
    /\ Quiet

ScanInit ==
    /\ \E content \in ScanContents, platform \in Platforms :
           call = [op |-> "scanInput", content |-> content, platform |-> platform]
    /\ file = ""
    /\ backups = <<>>
    /\ now = 0
    /\ fixes = <<>>
    /\ last = NoCall
    /\ ghost = GhostNone
    /\ reqs = <<>>
    /\ stack = <<>>
    /\ calls = 0

ScanNext == Scan \/ Synthesize

SpecScan == ScanInit /\ [][ScanNext]_vars

\* new differs from old only where a "!" that stands before "." became "?"
OnlyOptionalChaining(old, new) ==
    /\ Len(new) = Len(old)
    /\ new # old
    /\ \A i \in 1..Len(old) :
           \/ Char(new, i) = Char(old, i)
           \/ /\ Char(old, i) = "!" /\ Char(new, i) = "?"
              /\ i < Len(old) /\ Char(old, i + 1) = "."

FooBarFixed ==
    /\ call.issues # <<>>
    /\ \A n \in DOMAIN call.issues :
           /\ call.issues[n].type = "null_reference"
           /\ ~call.fixes[n].none
           /\ OnlyOptionalChaining(call.fixes[n].originalCode, call.fixes[n].suggestedCode)

\* C22 (as amended): on the react-native and web platforms, a file containing
\* foo!.bar gets a null_reference issue, and the fix synthesized for it has a
\* suggestedCode that differs from originalCode only in "!." being replaced
\* by "?.".
C22_ForceUnwrapBecomesOptional ==
    (/\ call.op = "synthesized"
     /\ call.platform \in {"react-native", "web"}
     /\ Includes(call.content, "foo!.bar"))
        => FooBarFixed

C22_Witness ==
    /\ call.op = "synthesized"
    /\ call.platform = "web"
    /\ call.content = "a\nfoo!.bar;\nb"
    /\ Len(call.issues) = 1
    /\ call.issues[1].line = 2
    /\ call.fixes[1].suggestedCode = "a\nfoo?.bar;\nb"

\* C22 (as stated): for a file containing foo!.bar, whatever the platform,
\* detection reports a null_reference issue and its fix differs from the
\* original only in "!." being replaced by "?.".
C22_AnyPlatform ==
    (call.op = "synthesized" /\ Includes(call.content, "foo!.bar")) => FooBarFixed

\* ---------------------------------------------------------------------------
\* Two fixes of one file: suggest_fixes on a file with two issues, both fixes
\* approved, then apply_fix and rollback_fix calls in any order (applyFixes
\* calls applyFix once per id, in the order given). The file system does what
\* it is asked.
\* ---------------------------------------------------------------------------

\* in the first file both code windows are the whole file, in the second the
\* windows are lines 1..6 and 7..9
TwoProjects ==
    {[file |-> "a!.b\nsetState(x)",
      issues |-> <<Issue("null_reference", "Non-null assertion operator", 1),
                   Issue("race_condition", "Async state update without mount check", 2)>>],
     [file |-> "a!.b\n1\n2\n3\n4\n5\n6\n7\nsetState(x)",
      issues |-> <<Issue("null_reference", "Non-null assertion operator", 1),
                   Issue("race_condition", "Async state update without mount check", 9)>>]}

MaxSteps == 3

Logged(op, id, o) == Append(call.log, [op |-> op, id |-> id, success |-> o.success])

TwoApply ==
    \E id \in DOMAIN fixes, backup \in BOOLEAN, validate \in BOOLEAN :
        \E o \in {applyFix(fixes, id, file, backups, now, backup, validate, FALSE,
                           TRUE, "ok", "ok", "ok")} :
            /\ call.op = "two" /\ Len(call.log) < MaxSteps
            /\ file' = o.file
            /\ backups' = o.backups
            /\ fixes' = o.store
            /\ call' = [call EXCEPT !.log = Logged("apply", id, o)]
            /\ UNCHANGED <<now, last, ghost, reqs, stack, calls>>

TwoRollback ==
    \E id \in DOMAIN fixes :
        \E o \in {rollbackFix(fixes, id, file, backups, TRUE, "ok")} :
            /\ call.op = "two" /\ Len(call.log) < MaxSteps
            /\ file' = o.file
            /\ call' = [call EXCEPT !.log = Logged("rollback", id, o)]
            /\ UNCHANGED <<backups, fixes, now, last, ghost, reqs, stack, calls>>

TwoInit ==
    /\ \E p \in TwoProjects :
           /\ file = p.file
           /\ fixes = Bind(suggestFixes(<<>>, p.issues, "web", TRUE, p.file),
                           LAMBDA store : ApproveAll(store, DOMAIN store))
    /\ call = [op |-> "two", log |-> <<>>]
    /\ backups = <<>>
    /\ now = 0
    /\ last = NoCall
    /\ ghost = GhostNone
    /\ reqs = <<>>
    /\ stack = <<>>
    /\ calls = 0

TwoNext == Tick \/ TwoApply \/ TwoRollback

SpecTwo == TwoInit /\ [][TwoNext]_vars

Lines(text) == {Split(text)[i] : i \in 1..Len(Split(text))}

\* the lines a fix writes that its original snippet did not have
Written(id) == Lines(CodeToApply(fixes[id])) \ Lines(fixes[id].fix.originalCode)

Did(op, id) ==
    /\ call'.log # call.log
    /\ call'.log[Len(call'.log)] = [op |-> op, id |-> id, success |-> TRUE]

\* C23: a successful apply of a second fix leaves in the file every line the
\* first, already applied fix wrote, also when their code windows overlap.
C23_SecondKeepsFirst ==
    [][\A a, b \in DOMAIN fixes :
          (/\ a # b
           /\ StatusOf(fixes, a) = "applied"
           /\ Written(a) \subseteq Lines(file)
           /\ Did("apply", b))
              => Written(a) \subseteq Lines(file')]_vars

\* C24: a successful rollback of fix A leaves in the file the lines written
\* by a fix B that was applied after A (each with a backup file of its own).
C24_RollbackKeepsLater ==
    [][\A a, b \in DOMAIN fixes :
          (/\ a # b
           /\ \E i, j \in DOMAIN call.log :
                  /\ i < j
                  /\ call.log[i] = [op |-> "apply", id |-> a, success |-> TRUE]
                  /\ call.log[j] = [op |-> "apply", id |-> b, success |-> TRUE]
           /\ fixes[a].application.v.backupPath # fixes[b].application.v.backupPath
           /\ Written(b) \subseteq Lines(file)
           /\ Did("rollback", a))
              => Written(b) \subseteq Lines(file')]_vars

\* ---------------------------------------------------------------------------
\* Claims about the patch of a fix whose original snippet is in the file
\* ---------------------------------------------------------------------------

\* run stands in lines from line k on, compared line by line after trimming
RunAt(lines, run, k) ==
    /\ k + Len(run) - 1 <= Len(lines)
    /\ \A j \in 1..Len(run) : Trim(lines[k + j - 1]) = Trim(run[j])

Runs(lines, run) == {k \in 1..Len(lines) : RunAt(lines, run, k)}

\* C25: when originalCode stands in the file as a run of lines (compared
\* after trimming each line), applyFix replaces the first such run, and only
\* it, by the code to apply: the lines before and after it are unchanged and
\* in order.
C25_FirstRunReplaced ==
    (call.op = "patched" /\ Runs(Split(call.content), Split(call.originalCode)) # {})
        => LET lines == Split(call.content)
               run == Split(call.originalCode)
               k == CHOOSE i \in Runs(lines, run) : \A m \in Runs(lines, run) : i <= m
           IN /\ call.success
              /\ Split(call.file) = SubSeq(lines, 1, k - 1) \o Split(call.suggestedCode)
                                    \o SubSeq(lines, k + Len(run), Len(lines))

C25_Witness ==
    /\ call.op = "patched"
    /\ call.content = " y\nx\ny"
    /\ call.originalCode = "y"
    /\ call.suggestedCode = "s\nt"
    /\ call.file = "s\nt\nx\ny"

C27_DryRunWritesNothing ==
    [][\A id \in FixIds :
          IsCall("preview", id)
              => /\ file' = file
                 /\ backups' = backups
                 /\ fixes' = fixes]_vars

\* a dry run of a confirmed fix has answered with success and the fix is still
\* confirmed, without an application record, and the file still unpatched
C27_Witness ==
    /\ last.op = "preview" /\ last.result = "ok"
    /\ StatusOf(fixes, last.id) = "confirmed"
    /\ ~fixes[last.id].application.def
    /\ file \in InitialFiles
    /\ backups = <<>>

\* ---------------------------------------------------------------------------
\* The fix store as the file holds it (storage/index): fixes.json is an array
\* of StoredFix records; every function reads the array, changes it and
\* writes it back. Reading and writing the file succeed.
\* ---------------------------------------------------------------------------

StoreIds == {1, 2}

StoreCodes == {"s", "t"}

MaxRecords == 3

\* fixes.findIndex(f => f.fix.id === id), 0 when there is none
FindIndex(records, id) ==
    LET hits == {i \in DOMAIN records : records[i].fix.id = id}
    IN IF hits = {} THEN 0 ELSE Least(hits)

NewRecord(fix, t) ==
    [fix |-> fix, createdAt |-> t, updatedAt |-> t,
     confirmation |-> Undefined, application |-> Undefined]

\* a mutation of saveFixRecord: the record is pushed, whatever the store holds
saveFixPush(records, fix, t) == Append(records, NewRecord(fix, t))

\* saveFix on the array
saveFixRecord(records, fix, t) ==
    LET existing == FindIndex(records, fix.id)
    IN IF existing > 0
       THEN [records EXCEPT ![existing] =
                [fix |-> fix, createdAt |-> records[existing].createdAt, updatedAt |-> t,
                 confirmation |-> records[existing].confirmation,
                 application |-> records[existing].application]]
       ELSE Append(records, NewRecord(fix, t))

StoreSave ==
    \E id \in StoreIds, code \in StoreCodes :
        /\ call.op = "store"
        /\ Len(fixes) < MaxRecords
        /\ fixes' = saveFixRecord(fixes, [id |-> id, suggestedCode |-> code,
                                          status |-> "pending"], now)
        /\ call' = [op |-> "store", did |-> "save", id |-> id]
        /\ UNCHANGED <<file, backups, now, last, ghost, reqs, stack, calls>>

\* updateFixConfirmation on the array
StoreConfirm ==
    \E id \in StoreIds, action \in {"approve", "reject"} :
        /\ call.op = "store"
        /\ FindIndex(fixes, id) > 0
        /\ fixes' = [fixes EXCEPT
               ![FindIndex(fixes, id)].confirmation = Some([action |-> action, confirmedAt |-> now]),
               ![FindIndex(fixes, id)].fix.status = ConfirmedStatus(action),
               ![FindIndex(fixes, id)].updatedAt = now]
        /\ call' = [op |-> "store", did |-> "confirm", id |-> id]
        /\ UNCHANGED <<file, backups, now, last, ghost, reqs, stack, calls>>

\* updateFixApplication on the array
StoreApply ==
    \E id \in StoreIds :
        /\ call.op = "store"
        /\ FindIndex(fixes, id) > 0
        /\ fixes' = [fixes EXCEPT
               ![FindIndex(fixes, id)].application = Some([success |-> TRUE, appliedAt |-> now]),
               ![FindIndex(fixes, id)].fix.status = AppliedStatus(TRUE),
               ![FindIndex(fixes, id)].updatedAt = now]
        /\ call' = [op |-> "store", did |-> "apply", id |-> id]
        /\ UNCHANGED <<file, backups, now, last, ghost, reqs, stack, calls>>

StoreInit ==
    /\ fixes = <<>>
    /\ call = [op |-> "store", did |-> "none", id |-> 0]
    /\ file = ""
    /\ backups = <<>>
    /\ now = 0
    /\ last = NoCall
    /\ ghost = GhostNone
    /\ reqs = <<>>
    /\ stack = <<>>
    /\ calls = 0

StoreNext == Tick \/ StoreSave \/ StoreConfirm \/ StoreApply

SpecStore == StoreInit /\ [][StoreNext]_vars

\* C28: after any saveFix the store holds at most one record per fix id, and
\* saving an id that is already stored keeps that record's createdAt,
\* confirmation and application.
C28_OneRecordPerId ==
    [][/\ \A i, j \in DOMAIN fixes' : fixes'[i].fix.id = fixes'[j].fix.id => i = j
       /\ call'.did = "save"
              => \A i \in DOMAIN fixes :
                     fixes[i].fix.id = call'.id
                         => \E j \in DOMAIN fixes' :
                                /\ fixes'[j].fix.id = call'.id
                                /\ fixes'[j].createdAt = fixes[i].createdAt
                                /\ fixes'[j].confirmation = fixes[i].confirmation
                                /\ fixes'[j].application = fixes[i].application]_vars

\* an applied fix was saved again later: its record is still the only one of
\* its id, with the old createdAt and its confirmation and application
C28_Witness ==
    /\ call.op = "store" /\ call.did = "save"
    /\ Len(fixes) = 2
    /\ \E i \in DOMAIN fixes :
           /\ fixes[i].fix.id = call.id
           /\ fixes[i].fix.status = "pending"
           /\ fixes[i].createdAt < fixes[i].updatedAt
           /\ fixes[i].confirmation.def
           /\ fixes[i].application.def

\* ---------------------------------------------------------------------------
\* runScenarioTest (cicdIntegration.ts): the attempts of a scenario. The
\* function awaits executeStep for one step at a time; what follows the await
\* (the step's result, the loop exits, and after the last step the report)
\* runs without interruption.
\* ---------------------------------------------------------------------------

MaxRetries == 3

MaxScenarioSteps == 2

\* the run after the step at hand has ended with stepStatus; overallStatus is
\* set to 'passed' once, before the first attempt
AfterStep(run, stepStatus) ==
    LET overallStatus == IF stepStatus = "failed" THEN "failed" ELSE run.overallStatus
        attemptOver == stepStatus = "failed" \/ run.step = run.steps
        clean == run.clean \/ (stepStatus = "passed" /\ run.step = run.steps)
        stepResults == Append(run.stepResults, stepStatus)
    IN IF ~attemptOver
       THEN [run EXCEPT !.step = @ + 1, !.stepResults = stepResults]
       ELSE IF overallStatus = "passed" \/ run.attempt = run.retries
       THEN [run EXCEPT !.op = "reported", !.overallStatus = overallStatus,
                        !.stepResults = stepResults, !.clean = clean]
       ELSE [run EXCEPT !.attempt = @ + 1, !.step = 1,
                        !.overallStatus = overallStatus,
                        !.stepResults = stepResults, !.clean = clean]

\* executeStep returns an output that meets the expectation
StepPasses ==
    /\ call.op = "running"
    /\ call' = AfterStep(call, "passed")
    /\ Quiet

\* the output of executeStep does not contain the expected text
StepFails ==
    /\ call.op = "running"
    /\ call' = AfterStep(call, "failed")
    /\ Quiet

\* executeStep (or takeScreenshot) throws: the first error is kept
StepThrows ==
    /\ call.op = "running"
    /\ call' = AfterStep([call EXCEPT !.error = TRUE], "failed")
    /\ Quiet

RetryInit ==
    /\ \E retries \in 1..MaxRetries, steps \in 1..MaxScenarioSteps :
           call = [op |-> "running", retries |-> retries, steps |-> steps,
                   attempt |-> 1, step |-> 1, overallStatus |-> "passed",
                   stepResults |-> <<>>, error |-> FALSE, clean |-> FALSE]
    /\ file = ""
    /\ backups = <<>>
    /\ now = 0
    /\ fixes = <<>>
    /\ last = NoCall
    /\ ghost = GhostNone
    /\ reqs = <<>>
    /\ stack = <<>>
    /\ calls = 0

RetryNext == StepPasses \/ StepFails \/ StepThrows

SpecRetry == RetryInit /\ [][RetryNext]_vars

\* C29: with retries > 1 the reported status is passed when some attempt ran
\* all its steps without a failure, even after a failed attempt, and failed
\* only when every attempt failed.
C29_PassedIfSomeAttemptPassed ==
    (call.op = "reported" /\ call.retries > 1)
        => (call.overallStatus = "passed" <=> call.clean)

\* ---------------------------------------------------------------------------
\* detectLogicErrors with its checkTypes and analysisDepth parameters, on one
\* file. The contents hold none of the words the race-condition and
\* state-inconsistency patterns need (async, setState, let, useState, if,
\* await) and no return, so those detectors and the dead-code pattern report
\* nothing.
\* ---------------------------------------------------------------------------

CheckContents ==
    {"a!.b", "x: any", "while (true) {}", "a!.b\nwhile(true) {}", "for (;;) {}",
     "while (true) { break }", "x: any\nfor(;;) a!.b"}

LogicTypes == {"race_condition", "state_inconsistency", "null_reference", "type_mismatch"}

CheckTypeLists == SUBSET LogicTypes \cup {{"all"}}

AnalysisDepths == {"shallow", "normal", "deep"}

WhileTrue == <<Lit("while"), WsLit("("), WsLit("true"), WsLit(")")>>

ForEver == <<Lit("for"), WsLit("("), WsLit(";"), WsLit(";"), WsLit(")")>>

\* the index after the match of /while\s*\(\s*true\s*\)|\bfor\s*\(\s*;\s*;\s*\)/
\* at k, 0 when it does not match there
InfiniteLoopAt(s, k) ==
    IF MatchAt(s, k, WhileTrue) > 0 THEN MatchAt(s, k, WhileTrue)
    ELSE IF k = 1 \/ ~IsWord(Char(s, k - 1)) THEN MatchAt(s, k, ForEver)
    ELSE 0

RECURSIVE InfiniteLoops(_, _, _, _, _)
InfiniteLoops(s, from, run, t, issues) ==
    LET hits == {k \in from..Len(s) : InfiniteLoopAt(s, k) > 0}
    IN IF hits = {} THEN issues
       ELSE Bind(Least(hits),
                 LAMBDA k :
                     LET afterMatch == SubSeq(s, k, Min(Len(s), k + 199))
                     IN InfiniteLoops(s, InfiniteLoopAt(s, k), run, t,
                            IF ~Includes(afterMatch, "break") /\ ~Includes(afterMatch, "return")
                            THEN Append(issues,
                                     DetectedIssue(run, Len(issues) + 1, t,
                                                   "state_inconsistency",
                                                   "Potential infinite loop", s, LineOf(s, k)))
                            ELSE issues))

detectAdvancedLogicErrors(s, platform, run, t, issues) == InfiniteLoops(s, 1, run, t, issues)

detectLogicErrors(s, platform, analysisDepth, checkTypes, run, t) ==
    LET shouldCheckAll == "all" \in checkTypes
    IN Bind(IF shouldCheckAll \/ "null_reference" \in checkTypes
            THEN detectNullReferences(s, platform, run, t, <<>>) ELSE <<>>,
            LAMBDA nulls :
       Bind(IF shouldCheckAll \/ "type_mismatch" \in checkTypes
            THEN detectTypeMismatches(s, platform, run, t, nulls) ELSE nulls,
            LAMBDA types :
                IF analysisDepth = "deep"
                THEN detectAdvancedLogicErrors(s, platform, run, t, types)
                ELSE types))

DetectLogicErrors ==
    /\ call.op = "checkInput"
    /\ call' = [op |-> "checked", content |-> call.content, platform |-> call.platform,
                analysisDepth |-> call.analysisDepth, checkTypes |-> call.checkTypes,
                issues |-> detectLogicErrors(call.content, call.platform,
                                             call.analysisDepth, call.checkTypes, 1, now)]
    /\ Quiet

CheckInit ==
    /\ \E content \in CheckContents, platform \in DetectPlatforms,
          analysisDepth \in AnalysisDepths, checkTypes \in CheckTypeLists :
           call = [op |-> "checkInput", content |-> content, platform |-> platform,
                   analysisDepth |-> analysisDepth, checkTypes |-> checkTypes]
    /\ file = ""
    /\ backups = <<>>
    /\ now = 0
    /\ fixes = <<>>
    /\ last = NoCall
    /\ ghost = GhostNone
    /\ reqs = <<>>
    /\ stack = <<>>
    /\ calls = 0

CheckNext == DetectLogicErrors

SpecCheck == CheckInit /\ [][CheckNext]_vars

\* C30: when checkTypes does not contain 'all', every issue detectLogicErrors
\* returns has one of the requested types, at every analysisDepth.
C30_OnlyRequestedTypes ==
    (call.op = "checked" /\ "all" \notin call.checkTypes)
        => \A n \in DOMAIN call.issues : call.issues[n].type \in call.checkTypes

====
